---- MODULE Spec2Model ----
(***************************************************************************)
(* Sprint metrics and risk analysis engine of the Scrum Master agent:      *)
(* process_trello_data (normalizer), calculate_sprint_metrics,             *)
(* analyze_team_performance, identify_process_bottlenecks and              *)
(* analyze_sprint_data (burn-down, velocity, risks, recommendations).      *)
(*                                                                         *)
(* Python dictionaries are records whose DOMAIN is the set of keys that    *)
(* are present; d.get(k, default) is Get(d, k, default).  Text that the    *)
(* code inspects (comment texts, label names) is a sequence of characters, *)
(* so that lower(), substring search and slicing are computed.  Floats are *)
(* exact rationals <<numerator, denominator>> in lowest terms: on the      *)
(* card counts modelled here the IEEE results of c / t * 100, avg * 1.5    *)
(* and the comparisons made on them coincide with the exact ones.          *)
(***************************************************************************)
EXTENDS Integers, Sequences, FiniteSets, TLC

VARIABLES board_data, now, pc, processed_data, analysis_results, data_gaps

vars == <<board_data, now, pc, processed_data, analysis_results, data_gaps>>

---------------------------------------------------------------------------
(* Python values *)

\* None, for keys whose values are strings (ids, names).
None == "None"

\* dict.get(key, default)
Get(d, k, default) == IF k \in DOMAIN d THEN d[k] ELSE default

\* The outcome of a call that raised instead of returning.
Raised(exc) == [raised |-> exc]

IsRaised(r) == "raised" \in DOMAIN r

Min(a, b) == IF a < b THEN a ELSE b

RECURSIVE Gcd(_, _)
Gcd(a, b) == IF b = 0 THEN a ELSE Gcd(b, a % b)

\* The float n / d (n >= 0, d > 0), kept exact.
Rat(n, d) == LET g == Gcd(n, d) IN <<n \div g, d \div g>>

RatLT(a, b) == a[1] * b[2] < b[1] * a[2]

RatGT(a, b) == RatLT(b, a)

RatMul(a, b) == Rat(a[1] * b[1], a[2] * b[2])

RatDiv(a, b) == Rat(a[1] * b[2], a[2] * b[1])

RatSub(a, b) == Rat(a[1] * b[2] - b[1] * a[2], a[2] * b[2])

IntRat(n) == <<n, 1>>

\* The outcome of a division by zero: no float has denominator 0.
ZeroDivision == <<0, 0>>

\* n / d on numbers: ZeroDivisionError when d is 0.
Div(n, d) == IF d = 0 THEN ZeroDivision ELSE Rat(n, d)

\* a / b on floats
FloatDiv(a, b) == IF b[1] = 0 THEN ZeroDivision ELSE RatDiv(a, b)

RECURSIVE SumSeq(_)
SumSeq(s) == IF s = <<>> THEN 0 ELSE Head(s) + SumSeq(Tail(s))

---------------------------------------------------------------------------
(* Text *)

UpperCase == <<"A", "B", "C", "D", "E", "F", "G", "H", "I", "J", "K", "L", "M",
               "N", "O", "P", "Q", "R", "S", "T", "U", "V", "W", "X", "Y", "Z">>

LowerCase == <<"a", "b", "c", "d", "e", "f", "g", "h", "i", "j", "k", "l", "m",
               "n", "o", "p", "q", "r", "s", "t", "u", "v", "w", "x", "y", "z">>

\* str.lower() on one character
LowerChar(c) ==
    IF \E i \in 1..26 : UpperCase[i] = c
    THEN LowerCase[CHOOSE i \in 1..26 : UpperCase[i] = c]
    ELSE c

\* Mutant: the case is kept.
LowerKeepsCase(text) == text

\* str.lower()
Lower(text) == [i \in 1..Len(text) |-> LowerChar(text[i])]

\* needle in text
Contains(text, needle) ==
    \E i \in 0..(Len(text) - Len(needle)) :
        \A j \in 1..Len(needle) : text[i + j] = needle[j]

\* text[:n]
Prefix(text, n) == SubSeq(text, 1, Min(n, Len(text)))

BlockerWord == <<"b", "l", "o", "c", "k", "e", "r">>

Ellipsis == <<".", ".", ".">>

RedLabelPrefix == <<"R", "e", "d", " ", "l", "a", "b", "e", "l", ":", " ">>

CommentPrefix ==
    <<"B", "l", "o", "c", "k", "e", "r", " ", "m", "e", "n", "t", "i", "o", "n", "e", "d", " ",
      "i", "n", " ", "c", "o", "m", "m", "e", "n", "t", ":", " ">>

DefaultLabelName == <<"B", "l", "o", "c", "k", "e", "r">>

\* The slice length of the blocker reason.
ReasonChars == 50

\* blockerReason None: every reason the code builds starts with a prefix, so
\* the empty text stands for None.
NoReason == <<>>

---------------------------------------------------------------------------
(* Board Snapshot Normalizer: DataCollectionAgent *)

\* A value that is None where a dict is expected.
NoneObj == [is_none |-> TRUE]

EmptyDict == <<>>

\* `not d` for a dict or None
Falsy(d) == d = NoneObj \/ DOMAIN d = {}

\* The first key of `keys`, in order, that `d` lacks ("" when it has them all):
\* the KeyError that d[k] raises.
RECURSIVE MissingKey(_, _)
MissingKey(d, keys) ==
    IF keys = <<>> THEN ""
    ELSE IF Head(keys) \notin DOMAIN d THEN Head(keys)
    ELSE MissingKey(d, Tail(keys))

\* The first KeyError over the records of a sequence, each subscripted by `keys`.
RECURSIVE SeqKeyError(_, _)
SeqKeyError(s, keys) ==
    IF s = <<>> THEN ""
    ELSE IF MissingKey(Head(s), keys) # "" THEN MissingKey(Head(s), keys)
    ELSE SeqKeyError(Tail(s), keys)

\* {x["id"]: x for x in xs}: a later record replaces an earlier one of the same id.
IdMap(xs) ==
    [id \in {xs[i].id : i \in 1..Len(xs)} |->
        xs[CHOOSE i \in 1..Len(xs) :
            /\ xs[i].id = id
            /\ \A j \in 1..Len(xs) : xs[j].id = id => j <= i]]

\* member.get("fullName", member.get("username", "Unknown"))
MemberName(member) == Get(member, "fullName", Get(member, "username", "Unknown"))

\* The KeyError raised while the comments of one card are extracted.
RECURSIVE ActionsKeyError(_)
ActionsKeyError(actions) ==
    IF actions = <<>> THEN ""
    ELSE LET a == Head(actions) IN
         IF "type" \notin DOMAIN a THEN "type"
         ELSE IF a.type # "commentCard" THEN ActionsKeyError(Tail(actions))
         ELSE IF MissingKey(a, <<"id", "data">>) # "" THEN MissingKey(a, <<"id", "data">>)
         ELSE IF "text" \notin DOMAIN a.data THEN "text"
         ELSE IF "date" \notin DOMAIN a THEN "date"
         ELSE ActionsKeyError(Tail(actions))

CardKeyError(card) ==
    IF "actions" \in DOMAIN card THEN ActionsKeyError(card.actions) ELSE ""

IsCommentAction(a) == a.type = "commentCard"

\* The comments of a card: its actions of type commentCard, in order.
CardComments(card) ==
    IF "actions" \notin DOMAIN card THEN <<>>
    ELSE LET cs == SelectSeq(card.actions, IsCommentAction) IN
         [i \in 1..Len(cs) |->
            [id |-> cs[i].id, text |-> cs[i].data.text, date |-> cs[i].date,
             memberCreator |-> Get(cs[i], "memberCreator", EmptyDict)]]

\* Mutant: a member id that does not resolve is kept under the name Unknown.
CardMembersKeepsUnknown(card, member_map) ==
    LET ids == Get(card, "idMembers", <<>>) IN
    [i \in 1..Len(ids) |->
        [id |-> ids[i],
         name |-> IF ids[i] \in DOMAIN member_map THEN MemberName(member_map[ids[i]])
                  ELSE "Unknown"]]

\* The members of a card that resolve, in order.
CardMembers(card, member_map) ==
    LET ids == SelectSeq(Get(card, "idMembers", <<>>), LAMBDA m : m \in DOMAIN member_map) IN
    [i \in 1..Len(ids) |-> [id |-> ids[i], name |-> MemberName(member_map[ids[i]])]]

\* for label in labels: the first red label decides.
RECURSIVE RedLabelScan(_)
RedLabelScan(labels) ==
    IF labels = <<>> THEN [is_blocker |-> FALSE, blocker_reason |-> NoReason]
    ELSE IF Get(Head(labels), "color", None) = "red"
         THEN [is_blocker |-> TRUE,
               blocker_reason |-> RedLabelPrefix \o Get(Head(labels), "name", DefaultLabelName)]
         ELSE RedLabelScan(Tail(labels))

\* for comment in comments: the first comment mentioning a blocker decides.
RECURSIVE CommentScan(_)
CommentScan(comments) ==
    IF comments = <<>> THEN [is_blocker |-> FALSE, blocker_reason |-> NoReason]
    ELSE IF Contains(Lower(Get(Head(comments), "text", <<>>)), BlockerWord)
         THEN [is_blocker |-> TRUE,
               blocker_reason |->
                   CommentPrefix \o Prefix(Head(comments).text, ReasonChars) \o Ellipsis]
         ELSE CommentScan(Tail(comments))

\* Mutant: the comments are consulted before the labels.
BlockerCheckCommentsFirst(labels, comments) ==
    IF CommentScan(comments).is_blocker THEN CommentScan(comments) ELSE RedLabelScan(labels)

\* Labels first; the comments only when no red label was found.
BlockerCheck(labels, comments) ==
    IF RedLabelScan(labels).is_blocker THEN RedLabelScan(labels) ELSE CommentScan(comments)

\* if list_id and list_id in list_map
ListResolves(list_id, list_map) ==
    list_id # None /\ list_id # "" /\ list_id \in DOMAIN list_map

NoDue == [kind |-> "None"]

\* Mutant: the name is compared without regard to case.
IsDoneIgnoringCase(list_name) == list_name \in {"Done", "done", "DONE"}

\* Mutant: names that look like Done count as Done.
IsDoneLike(list_name) == list_name \in {"Done", "done", "Done "}

\* list_name == "Done"
IsDone(list_name) == list_name = "Done"

process_card(card, list_map, member_map) ==
    LET list_id == Get(card, "idList", None)
        list_name == IF ListResolves(list_id, list_map) THEN list_map[list_id].name
                     ELSE "Unknown"
        comments == CardComments(card)
        blocker == BlockerCheck(Get(card, "labels", <<>>), comments)
    IN  [id |-> Get(card, "id", None),
         name |-> Get(card, "name", None),
         desc |-> Get(card, "desc", None),
         url |-> Get(card, "url", None),
         idList |-> list_id,
         listName |-> list_name,
         due |-> Get(card, "due", NoDue),
         dueComplete |-> Get(card, "dueComplete", FALSE),
         labels |-> Get(card, "labels", <<>>),
         members |-> CardMembers(card, member_map),
         comments |-> comments,
         isComplete |-> IsDone(list_name),
         isBlocker |-> blocker.is_blocker,
         blockerReason |-> blocker.blocker_reason]

\* Mutant: a list is put before the lists of the same position.
RECURSIVE InsertBeforeEqual(_, _)
InsertBeforeEqual(sorted, l) ==
    IF sorted = <<>> THEN <<l>>
    ELSE IF Get(Head(sorted), "pos", 0) < Get(l, "pos", 0)
         THEN <<Head(sorted)>> \o InsertBeforeEqual(Tail(sorted), l)
         ELSE <<l>> \o sorted

\* sorted(lists, key=lambda x: x.get("pos", 0)): stable.
RECURSIVE InsertByPos(_, _)
InsertByPos(sorted, l) ==
    IF sorted = <<>> THEN <<l>>
    ELSE IF Get(Head(sorted), "pos", 0) <= Get(l, "pos", 0)
         THEN <<Head(sorted)>> \o InsertByPos(Tail(sorted), l)
         ELSE <<l>> \o sorted

RECURSIVE SortedByPos(_)
SortedByPos(lists) ==
    IF lists = <<>> THEN <<>>
    ELSE InsertByPos(SortedByPos(SubSeq(lists, 1, Len(lists) - 1)), lists[Len(lists)])

\* The first KeyError of the try block of process_trello_data ("" when none).
ProcessKeyError(cards, lists, members) ==
    IF SeqKeyError(lists, <<"id">>) # "" THEN "id"
    ELSE IF SeqKeyError(members, <<"id">>) # "" THEN "id"
    ELSE IF \E i \in 1..Len(cards) : CardKeyError(cards[i]) # ""
         THEN CardKeyError(cards[CHOOSE i \in 1..Len(cards) :
                /\ CardKeyError(cards[i]) # ""
                /\ \A j \in 1..(i - 1) : CardKeyError(cards[j]) = ""])
    ELSE SeqKeyError(lists, <<"name">>)

\* if not board_data or "error" in board_data
BoardDataFailed(bd) == Falsy(bd) \/ "error" \in DOMAIN bd

\* Mutant: the error is returned next to the rest of the snapshot.
BoardDataErrorKeepsKeys(bd) == bd

\* return {"error": error_msg}
BoardDataError(bd) == [error |-> Get(bd, "error", "Unknown error retrieving board data")]

process_trello_data(bd) ==
    IF bd = NoneObj THEN Raised("AttributeError")
    ELSE IF BoardDataFailed(bd) THEN BoardDataError(bd)
    ELSE LET cards == Get(bd, "cards", <<>>)
             lists == Get(bd, "lists", <<>>)
             members == Get(bd, "members", <<>>)
             key_error == ProcessKeyError(cards, lists, members)
         IN  IF key_error # ""
             THEN [error |-> "Error processing board data: '" \o key_error \o "'"]
             ELSE LET list_map == IdMap(lists)
                      member_map == IdMap(members)
                      processed_cards ==
                          [i \in 1..Len(cards) |-> process_card(cards[i], list_map, member_map)]
                  IN  [board_id |-> Get(bd, "board_id", None),
                       cards |-> processed_cards,
                       lists |-> SortedByPos(lists),
                       members |-> members,
                       cards_by_list |->
                           [n \in {lists[i].name : i \in 1..Len(lists)} |->
                               SelectSeq(processed_cards, LAMBDA c : c.listName = n)],
                       timestamp |-> Get(bd, "timestamp", 0)]

\* Mutant: a card without due date has the gap whether complete or not.
MissingDueDateAlsoComplete(card) == Get(card, "due", NoDue).kind = "None"

\* not card.get("isComplete") and not card.get("due")
MissingDueDate(card) ==
    ~Get(card, "isComplete", FALSE) /\ Get(card, "due", NoDue).kind = "None"

\* not card.get("desc"): the description is absent, None or the empty text.
MissingDescription(card) == Get(card, "desc", None) \in {None, ""}

\* not card.get("members")
NoAssignedMembers(card) == Get(card, "members", <<>>) = <<>>

card_gaps(card) ==
    (IF MissingDueDate(card) THEN <<"Missing due date">> ELSE <<>>)
        \o (IF MissingDescription(card) THEN <<"Missing description">> ELSE <<>>)
        \o (IF NoAssignedMembers(card) THEN <<"No assigned members">> ELSE <<>>)

identify_data_gaps(pd) ==
    IF pd = NoneObj
    THEN <<[error |-> "Error identifying data gaps: 'NoneType' object has no attribute 'get'"]>>
    ELSE LET cards == Get(pd, "cards", <<>>)
             entries == [i \in 1..Len(cards) |->
                            [card_id |-> Get(cards[i], "id", None),
                             card_name |-> Get(cards[i], "name", None),
                             list_name |-> Get(cards[i], "listName", None),
                             gaps |-> card_gaps(cards[i])]]
         IN  SelectSeq(entries, LAMBDA e : e.gaps # <<>>)

---------------------------------------------------------------------------
(* Due dates.  A due value is NoDue (the key is absent or None) or           *)
(* [kind, t]: the text of a timestamp of instant t (in days), where kind is  *)
(* "naive" (ISO text without offset), "Z" (ISO text with the Z suffix),      *)
(* "offset" (ISO text ending +00:00) or "bad" (not ISO text).                *)

\* timedelta(days=3)
ThreeDays == 3

\* `if due_date_str`
HasDue(card) == Get(card, "due", NoDue).kind # "None"

\* due_date_str.replace("Z", "+00:00")
ReplaceZ(due) == IF due.kind = "Z" THEN [due EXCEPT !.kind = "offset"] ELSE due

\* datetime.fromisoformat: ValueError on text that is not ISO, else a datetime
\* that is aware iff the text carries an offset.
FromIsoFormat(due) ==
    IF due.kind = "bad" THEN Raised("ValueError")
    ELSE [aware |-> (due.kind = "offset"), t |-> due.t]

\* a < b on datetimes: TypeError when one is aware and the other naive.
DateLT(a, b) == IF a.aware # b.aware THEN Raised("TypeError") ELSE [value |-> a.t < b.t]

\* datetime.now(): naive
NowDate(clock) == [aware |-> FALSE, t |-> clock]

\* now < due_date <= three_days_from_now and not dueComplete, inside its try:
\* a ValueError or TypeError skips the card.
IsApproaching(card, clock) ==
    /\ HasDue(card)
    /\ LET due_date == FromIsoFormat(ReplaceZ(card.due)) IN
       /\ ~IsRaised(due_date)
       /\ ~IsRaised(DateLT(NowDate(clock), due_date))
       /\ DateLT(NowDate(clock), due_date).value
       /\ ~DateLT(NowDate(clock + ThreeDays), due_date).value
       /\ ~Get(card, "dueComplete", FALSE)

\* Mutant: a card past its due date is overdue whether dueComplete or not.
IsOverdueAlsoComplete(card, clock) ==
    /\ HasDue(card)
    /\ LET due_date == FromIsoFormat(ReplaceZ(card.due)) IN
       /\ ~IsRaised(due_date)
       /\ ~IsRaised(DateLT(due_date, NowDate(clock)))
       /\ DateLT(due_date, NowDate(clock)).value

\* due_date < now and not dueComplete, inside its try.
IsOverdue(card, clock) ==
    /\ HasDue(card)
    /\ LET due_date == FromIsoFormat(ReplaceZ(card.due)) IN
       /\ ~IsRaised(due_date)
       /\ ~IsRaised(DateLT(due_date, NowDate(clock)))
       /\ DateLT(due_date, NowDate(clock)).value
       /\ ~Get(card, "dueComplete", FALSE)

---------------------------------------------------------------------------
(* data_utils *)

\* The KeyError of {l["id"]: l["name"] for l in lists} ("" when none).
ListMapKeyError(lists) == SeqKeyError(lists, <<"id", "name">>)

ListNames(lists) == {lists[i].name : i \in 1..Len(lists)}

\* list_map.get(card.get("idList"), "Unknown")
ListNameOf(card, list_map) ==
    IF Get(card, "idList", None) \in DOMAIN list_map
    THEN list_map[Get(card, "idList", None)].name
    ELSE "Unknown"

\* Mutant: the cards whose list id does not resolve are counted as Unknown.
CountByListWithUnknown(cards, lists) ==
    [n \in ListNames(lists) \cup {"Unknown"} |->
        Cardinality({i \in 1..Len(cards) : ListNameOf(cards[i], IdMap(lists)) = n})]

\* cards_by_list: every list name at 0, then one more per card whose list
\* id resolves to it.
CountByList(cards, lists) ==
    LET list_map == IdMap(lists) IN
    [n \in ListNames(lists) |->
        Cardinality({i \in 1..Len(cards) :
            /\ ListResolves(Get(cards[i], "idList", None), list_map)
            /\ list_map[cards[i].idList].name = n})]

\* Mutant: only the labels are inspected.
MetricsIsBlockerByLabel(card) ==
    \E i \in 1..Len(Get(card, "labels", <<>>)) : Get(card.labels[i], "color", None) = "red"

\* Red label first, else a comment mentioning a blocker.
MetricsIsBlocker(card) ==
    \/ \E i \in 1..Len(Get(card, "labels", <<>>)) : Get(card.labels[i], "color", None) = "red"
    \/ \E i \in 1..Len(Get(card, "comments", <<>>)) :
          Contains(Lower(Get(card.comments[i], "text", <<>>)), BlockerWord)

DueEntries(cards, list_map, Pick(_)) ==
    LET picked == SelectSeq(cards, Pick) IN
    [i \in 1..Len(picked) |->
        [id |-> Get(picked[i], "id", None), name |-> Get(picked[i], "name", None),
         due |-> picked[i].due, list |-> ListNameOf(picked[i], list_map)]]

\* Mutant: the total is not tested before the division.
PercentageUnguarded(completed, total) == Div(completed * 100, total)

\* Mutant: a board without cards counts as fully complete.
PercentageFullWhenEmpty(completed, total) ==
    IF total > 0 THEN Div(completed * 100, total) ELSE IntRat(100)

\* completed / total * 100 if total > 0 else 0
Percentage(completed, total) == IF total > 0 THEN Div(completed * 100, total) ELSE IntRat(0)

\* Mutant: the error is reported without the defaults.
MetricsErrorBare(message) == [error |-> message]

\* The result of calculate_sprint_metrics when an exception is caught.
MetricsError(message) ==
    [error |-> message,
     total_cards |-> 0, cards_by_list |-> EmptyDict, completion_rate |-> IntRat(0),
     blockers |-> <<>>, approaching_deadlines |-> <<>>, overdue_cards |-> <<>>,
     blockers_count |-> 0, approaching_deadlines_count |-> 0, overdue_count |-> 0]

calculate_sprint_metrics(cards, lists, clock) ==
    IF ListMapKeyError(lists) # ""
    THEN MetricsError("'" \o ListMapKeyError(lists) \o "'")
    ELSE LET list_map == IdMap(lists)
             cards_by_list == CountByList(cards, lists)
             total_cards == Len(cards)
             completed_cards == Get(cards_by_list, "Done", 0)
             blocked == SelectSeq(cards, MetricsIsBlocker)
             blockers ==
                 [i \in 1..Len(blocked) |->
                     [id |-> Get(blocked[i], "id", None), name |-> Get(blocked[i], "name", None),
                      url |-> Get(blocked[i], "url", None),
                      list |-> ListNameOf(blocked[i], list_map)]]
             approaching_deadlines ==
                 DueEntries(cards, list_map, LAMBDA c : IsApproaching(c, clock))
             overdue_cards == DueEntries(cards, list_map, LAMBDA c : IsOverdue(c, clock))
         IN  IF Percentage(completed_cards, total_cards) = ZeroDivision
             THEN MetricsError("division by zero")
             ELSE
             [total_cards |-> total_cards,
              cards_by_list |-> cards_by_list,
              completion_rate |-> Percentage(completed_cards, total_cards),
              blockers |-> blockers,
              approaching_deadlines |-> approaching_deadlines,
              overdue_cards |-> overdue_cards,
              blockers_count |-> Len(blockers),
              approaching_deadlines_count |-> Len(approaching_deadlines),
              overdue_count |-> Len(overdue_cards)]

\* The distinct elements of a sequence, in order of first occurrence: the key
\* order of a dict filled in that order.
RECURSIVE Dedup(_)
Dedup(s) ==
    IF s = <<>> THEN <<>>
    ELSE LET init == Dedup(SubSeq(s, 1, Len(s) - 1)) IN
         IF \E i \in 1..Len(init) : init[i] = s[Len(s)] THEN init ELSE Append(init, s[Len(s)])

\* avg * 1.5
OneAndAHalf == <<3, 2>>

\* The (card, member id) pairs in the order the nested loops visit them.
RECURSIVE Assignments(_)
Assignments(cards) ==
    IF cards = <<>> THEN <<>>
    ELSE LET ids == Get(Head(cards), "idMembers", <<>>) IN
         [j \in 1..Len(ids) |-> [card |-> Head(cards), member_id |-> ids[j]]]
            \o Assignments(Tail(cards))

\* member_map.get(member_id, "Unknown")
BucketName(member_id, members) ==
    IF member_id \in DOMAIN IdMap(members) THEN MemberName(IdMap(members)[member_id])
    ELSE "Unknown"

\* The result of analyze_team_performance when an exception is caught.
TeamError(message) ==
    [error |-> message, cards_by_member |-> EmptyDict, avg_cards_per_member |-> IntRat(0),
     members_with_high_workload |-> <<>>, member_count |-> 0]

\* total_assignments / len(cards_by_member) if cards_by_member else 0
Average(total, count) == IF count > 0 THEN Div(total, count) ELSE IntRat(0)

\* Mutant: the ratio is taken the wrong way round.
AverageToRatio(count, avg) == IF count > 0 THEN FloatDiv(avg, IntRat(count)) ELSE IntRat(0)

\* count / avg if avg > 0 else 0
RatioToAverage(count, avg) == IF avg[1] > 0 THEN FloatDiv(IntRat(count), avg) ELSE IntRat(0)

\* Mutant: the count is compared with the average itself.
ExceedsAverage(count, avg) == RatGT(IntRat(count), avg)

\* Mutant: the comparison is not strict.
ReachesThreshold(count, avg) == ~RatLT(IntRat(count), RatMul(avg, OneAndAHalf))

\* stats["total"] > avg_assignments * 1.5
ExceedsThreshold(count, avg) == RatGT(IntRat(count), RatMul(avg, OneAndAHalf))

analyze_team_performance(cards, members, clock) ==
    IF SeqKeyError(members, <<"id">>) # ""
    THEN TeamError("'id'")
    ELSE LET pairs == Assignments(cards)
             named == [i \in 1..Len(pairs) |->
                          [card |-> pairs[i].card,
                           member_name |-> BucketName(pairs[i].member_id, members)]]
             order == Dedup([i \in 1..Len(named) |-> named[i].member_name])
             Of(n) == SelectSeq(named, LAMBDA a : a.member_name = n)
             Stats(n) ==
                 LET mine == Of(n)
                     total == Len(mine)
                     completed ==
                         Len(SelectSeq(mine, LAMBDA a : Get(a.card, "listName", None) = "Done"))
                 IN  [total |-> total,
                      completed |-> completed,
                      overdue |-> Len(SelectSeq(mine, LAMBDA a : IsOverdue(a.card, clock))),
                      cards |-> [i \in 1..Len(mine) |->
                                    [id |-> Get(mine[i].card, "id", None),
                                     name |-> Get(mine[i].card, "name", None),
                                     due |-> Get(mine[i].card, "due", NoDue),
                                     listName |-> Get(mine[i].card, "listName", "Unknown")]],
                      completion_rate |-> Percentage(completed, total)]
             cards_by_member == [n \in {order[i] : i \in 1..Len(order)} |-> Stats(n)]
             total_assignments == Len(pairs)
             avg_assignments == Average(total_assignments, Len(order))
             high == SelectSeq(order,
                         LAMBDA n : ExceedsThreshold(cards_by_member[n].total, avg_assignments))
         IN  IF \/ avg_assignments = ZeroDivision
                \/ \E i \in 1..Len(order) :
                      \/ cards_by_member[order[i]].completion_rate = ZeroDivision
                      \/ RatioToAverage(cards_by_member[order[i]].total, avg_assignments)
                            = ZeroDivision
             THEN TeamError("division by zero")
             ELSE
             [cards_by_member |-> cards_by_member,
              avg_cards_per_member |-> avg_assignments,
              members_with_high_workload |->
                  [i \in 1..Len(high) |->
                      [name |-> high[i],
                       cards_count |-> cards_by_member[high[i]].total,
                       avg_ratio |->
                           RatioToAverage(cards_by_member[high[i]].total, avg_assignments)]],
              member_count |-> Len(order)]

\* list_map[list_data["id"]] = {"name": list_data["name"], ...}: the value is
\* evaluated before the subscript, so a missing name is reported first.
BottleneckKeyError(lists) == SeqKeyError(lists, <<"name", "id">>)

\* The result of identify_process_bottlenecks when an exception is caught.
BottleneckError(message) ==
    [error |-> message, cards_by_list |-> EmptyDict, avg_cards_per_list |-> IntRat(0),
     bottlenecks |-> <<>>]

identify_process_bottlenecks(cards, lists) ==
    IF BottleneckKeyError(lists) # ""
    THEN BottleneckError("'" \o BottleneckKeyError(lists) \o "'")
    ELSE LET list_map == IdMap(lists)
             ids == Dedup([i \in 1..Len(lists) |-> lists[i].id])
             order == Dedup([i \in 1..Len(ids) |-> list_map[ids[i]].name])
             cards_by_list ==
                 [n \in {order[i] : i \in 1..Len(order)} |->
                     Cardinality({i \in 1..Len(cards) :
                         /\ ListResolves(Get(cards[i], "idList", None), list_map)
                         /\ list_map[cards[i].idList].name = n})]
             total == SumSeq([i \in 1..Len(order) |-> cards_by_list[order[i]]])
             avg_cards_per_list == Average(total, Len(order))
             flagged == SelectSeq(order,
                            LAMBDA n : ExceedsThreshold(cards_by_list[n], avg_cards_per_list))
         IN  IF \/ avg_cards_per_list = ZeroDivision
                \/ \E i \in 1..Len(flagged) :
                      RatioToAverage(cards_by_list[flagged[i]], avg_cards_per_list) = ZeroDivision
             THEN BottleneckError("division by zero")
             ELSE
             [cards_by_list |-> cards_by_list,
              avg_cards_per_list |-> avg_cards_per_list,
              bottlenecks |->
                  [i \in 1..Len(flagged) |->
                      [list_name |-> flagged[i],
                       card_count |-> cards_by_list[flagged[i]],
                       ratio_to_avg |->
                           RatioToAverage(cards_by_list[flagged[i]], avg_cards_per_list)]]]

---------------------------------------------------------------------------
(* AnalysisAgent *)

\* range(11): a 10 day sprint
SprintDays == 10

\* estimated_day = 5
EstimatedDay == 5

CannotEstimate == [text |-> "Cannot estimate"]

\* Mutant: the cards of the list named Done are taken as completed.
CompletedPointsByListName(cards) ==
    Len(SelectSeq(cards, LAMBDA c : Get(c, "listName", None) = "Done"))

CompletedPoints(cards) == Len(SelectSeq(cards, LAMBDA c : Get(c, "isComplete", FALSE)))

calculate_burn_down(cards, lists) ==
    LET total_points == Len(cards)
        completed_points == CompletedPoints(cards)
        remaining_points == total_points - completed_points
        completion_rate == Average(completed_points, total_points)
        projected_completion ==
            IF completion_rate[1] > 0
            THEN FloatDiv(IntRat(remaining_points), completion_rate)
            ELSE IntRat(0)
    IN  IF completion_rate = ZeroDivision \/ projected_completion = ZeroDivision
        THEN Raised("division by zero")
        ELSE
        [total_points |-> total_points,
         completed_points |-> completed_points,
         remaining_points |-> remaining_points,
         ideal_burn_down |->
             [i \in 1..(SprintDays + 1) |->
                 [day |-> i - 1,
                  ideal |-> RatSub(IntRat(total_points),
                                   Rat(total_points * (i - 1), SprintDays))]],
         actual_burn_down |->
             [i \in 1..(EstimatedDay + 1) |->
                 [day |-> i - 1,
                  actual |-> RatSub(IntRat(total_points),
                                    Rat(completed_points * (i - 1), EstimatedDay))]],
         projected_completion |->
             IF completion_rate[1] > 0 THEN [float |-> projected_completion]
             ELSE CannotEstimate]

calculate_velocity(cards) ==
    LET total_story_points == Len(cards)
        completed_story_points == CompletedPoints(cards)
    IN  IF Percentage(completed_story_points, total_story_points) = ZeroDivision
        THEN Raised("division by zero")
        ELSE
        [current_sprint |->
             [total_points |-> total_story_points,
              completed_points |-> completed_story_points,
              completion_percentage |-> Percentage(completed_story_points, total_story_points)],
         historical |->
             <<[sprint |-> "Sprint -1", completed_points |-> completed_story_points - 2],
               [sprint |-> "Sprint -2", completed_points |-> completed_story_points - 5],
               [sprint |-> "Sprint -3", completed_points |-> completed_story_points - 3]>>]

\* The thresholds of the risk rules.
LowCompletion == 70

VeryLowCompletion == 50

ManyBlockers == 2

ManyOverdue == 3

HighRatio == 2

Risk(category, severity) == [category |-> category, severity |-> severity]

\* Mutant: the severity is high only below 30.
CompletionRiskLowerBar(sprint_metrics) ==
    LET completion_rate == Get(sprint_metrics, "completion_rate", IntRat(0)) IN
    IF RatLT(completion_rate, IntRat(LowCompletion))
    THEN <<Risk("completion_rate",
                IF RatLT(completion_rate, IntRat(30)) THEN "high" ELSE "medium")>>
    ELSE <<>>

\* Mutant: the thresholds themselves are at risk.
CompletionRiskInclusive(sprint_metrics) ==
    LET completion_rate == Get(sprint_metrics, "completion_rate", IntRat(0)) IN
    IF ~RatGT(completion_rate, IntRat(LowCompletion))
    THEN <<Risk("completion_rate",
                IF ~RatGT(completion_rate, IntRat(VeryLowCompletion)) THEN "high" ELSE "medium")>>
    ELSE <<>>

CompletionRisk(sprint_metrics) ==
    LET completion_rate == Get(sprint_metrics, "completion_rate", IntRat(0)) IN
    IF RatLT(completion_rate, IntRat(LowCompletion))
    THEN <<Risk("completion_rate",
                IF RatLT(completion_rate, IntRat(VeryLowCompletion)) THEN "high" ELSE "medium")>>
    ELSE <<>>

\* Mutant: two blockers are already many.
BlockerRiskFromTwo(sprint_metrics) ==
    LET blockers == Get(sprint_metrics, "blockers", <<>>) IN
    IF blockers # <<>>
    THEN <<Risk("blockers", IF Len(blockers) >= ManyBlockers THEN "high" ELSE "medium")>>
    ELSE <<>>

BlockerRisk(sprint_metrics) ==
    LET blockers == Get(sprint_metrics, "blockers", <<>>) IN
    IF blockers # <<>>
    THEN <<Risk("blockers", IF Len(blockers) > ManyBlockers THEN "high" ELSE "medium")>>
    ELSE <<>>

ApproachingRisk(sprint_metrics) ==
    IF Get(sprint_metrics, "approaching_deadlines", <<>>) # <<>>
    THEN <<Risk("approaching_deadlines", "medium")>>
    ELSE <<>>

OverdueRisk(sprint_metrics) ==
    LET overdue_cards == Get(sprint_metrics, "overdue_cards", <<>>) IN
    IF overdue_cards # <<>>
    THEN <<Risk("overdue", IF Len(overdue_cards) > ManyOverdue THEN "high" ELSE "medium")>>
    ELSE <<>>

WorkloadRisk(team_performance) ==
    IF Get(team_performance, "members_with_high_workload", <<>>) # <<>>
    THEN <<Risk("workload_imbalance", "medium")>>
    ELSE <<>>

\* Mutant: twice the average is already high.
BottleneckRiskInclusive(process_bottlenecks) ==
    LET bottlenecks == Get(process_bottlenecks, "bottlenecks", <<>>) IN
    IF bottlenecks # <<>>
    THEN <<Risk("process_bottlenecks",
                IF \E i \in 1..Len(bottlenecks) :
                       ~RatLT(Get(bottlenecks[i], "ratio_to_avg", IntRat(0)), IntRat(HighRatio))
                THEN "high" ELSE "medium")>>
    ELSE <<>>

BottleneckRisk(process_bottlenecks) ==
    LET bottlenecks == Get(process_bottlenecks, "bottlenecks", <<>>) IN
    IF bottlenecks # <<>>
    THEN <<Risk("process_bottlenecks",
                IF \E i \in 1..Len(bottlenecks) :
                       RatGT(Get(bottlenecks[i], "ratio_to_avg", IntRat(0)), IntRat(HighRatio))
                THEN "high" ELSE "medium")>>
    ELSE <<>>

\* The risks in the order the rules are evaluated (description and impact,
\* which no rule reads, are left out).
identify_risks(cards, sprint_metrics, team_performance, process_bottlenecks) ==
    CompletionRisk(sprint_metrics) \o BlockerRisk(sprint_metrics)
        \o ApproachingRisk(sprint_metrics) \o OverdueRisk(sprint_metrics)
        \o WorkloadRisk(team_performance) \o BottleneckRisk(process_bottlenecks)

Recommendation(category, priority, action_items) ==
    [category |-> category, priority |-> priority, action_items |-> action_items]

CompletionRecommendation ==
    Recommendation("completion_rate", "high",
        <<"Conduct a mid-sprint scope review",
          "Identify and remove non-essential tasks",
          "Focus team efforts on highest priority items">>)

BlockersRecommendation ==
    Recommendation("blockers", "high",
        <<"Schedule a blocker resolution session",
          "Escalate blockers to relevant stakeholders if needed",
          "Assign owners to each blocker with clear resolution timelines">>)

DeadlinesRecommendation ==
    Recommendation("deadlines", "high",
        <<"Re-evaluate overdue and approaching deadline tasks",
          "Adjust timelines or reassign resources as needed",
          "Communicate changes to stakeholders">>)

WorkloadRecommendation ==
    Recommendation("workload", "medium",
        <<"Redistribute tasks from overloaded team members",
          "Pair team members on complex tasks",
          "Consider bringing in additional resources if available">>)

ProcessRecommendation ==
    Recommendation("process", "medium",
        <<"Focus team efforts on clearing bottlenecked stages",
          "Review process flow and identify improvement opportunities",
          "Consider temporary process adjustments for the current sprint">>)

GeneralRecommendation ==
    Recommendation("general", "low",
        <<"Maintain daily stand-ups and communications",
          "Keep the board updated with the latest status",
          "Ensure team members are aware of their responsibilities">>)

\* Mutant: only approaching deadlines lead to the deadline review.
ApproachingRiskPresent(risk_categories) == "approaching_deadlines" \in risk_categories

\* Mutant: only overdue cards lead to the deadline review.
OverdueRiskPresent(risk_categories) == "overdue" \in risk_categories

\* if "approaching_deadlines" in risk_categories or "overdue" in risk_categories
DeadlineRiskPresent(risk_categories) ==
    "approaching_deadlines" \in risk_categories \/ "overdue" \in risk_categories

generate_recommendations(risks) ==
    LET risk_categories == {risks[i].category : i \in 1..Len(risks)}
        recommendations ==
            (IF "completion_rate" \in risk_categories
                 THEN <<CompletionRecommendation>> ELSE <<>>)
            \o (IF "blockers" \in risk_categories THEN <<BlockersRecommendation>> ELSE <<>>)
            \o (IF DeadlineRiskPresent(risk_categories)
                    THEN <<DeadlinesRecommendation>> ELSE <<>>)
            \o (IF "workload_imbalance" \in risk_categories
                    THEN <<WorkloadRecommendation>> ELSE <<>>)
            \o (IF "process_bottlenecks" \in risk_categories
                    THEN <<ProcessRecommendation>> ELSE <<>>)
    IN  IF recommendations = <<>> THEN <<GeneralRecommendation>> ELSE recommendations

\* Mutant: only the empty snapshot short-circuits.
ProcessedDataFailedOnlyEmpty(pd) == Falsy(pd)

\* if not processed_data or "error" in processed_data
ProcessedDataFailed(pd) == Falsy(pd) \/ "error" \in DOMAIN pd

\* return {"error": error_msg}
ProcessedDataError(pd) == [error |-> Get(pd, "error", "Unknown error in processed data")]

analyze_sprint_data(pd, clock) ==
    IF pd = NoneObj THEN Raised("AttributeError")
    ELSE IF ProcessedDataFailed(pd) THEN ProcessedDataError(pd)
    ELSE LET cards == Get(pd, "cards", <<>>)
             lists == Get(pd, "lists", <<>>)
             members == Get(pd, "members", <<>>)
             sprint_metrics == calculate_sprint_metrics(cards, lists, clock)
             team_performance == analyze_team_performance(cards, members, clock)
             process_bottlenecks == identify_process_bottlenecks(cards, lists)
             risks == identify_risks(cards, sprint_metrics, team_performance,
                                     process_bottlenecks)
             burn_down_data == calculate_burn_down(cards, lists)
             velocity_data == calculate_velocity(cards)
         IN  IF IsRaised(burn_down_data)
             THEN [error |-> "Error analyzing sprint data: " \o burn_down_data.raised]
             ELSE IF IsRaised(velocity_data)
             THEN [error |-> "Error analyzing sprint data: " \o velocity_data.raised]
             ELSE
             [timestamp |-> clock,
              sprint_metrics |-> sprint_metrics,
              team_performance |-> team_performance,
              process_bottlenecks |-> process_bottlenecks,
              burn_down |-> burn_down_data,
              velocity |-> velocity_data,
              risks |-> risks,
              recommendations |-> generate_recommendations(risks),
              sprint_end_date |-> None,
              days_remaining |-> None]

---------------------------------------------------------------------------
(* BoardDataFetcherTool: the snapshot handed to the agents *)

\* _run, once the three collections are fetched: each card gets its listName
\* and its comments.
run_board_fetcher(board_id, cards, lists, members, timestamp) ==
    IF SeqKeyError(lists, <<"id">>) # ""
    THEN [error |-> "Unexpected error fetching board data: 'id'"]
    ELSE IF \E i \in 1..Len(cards) :
               \/ (ListResolves(Get(cards[i], "idList", None), IdMap(lists))
                     /\ "name" \notin DOMAIN IdMap(lists)[cards[i].idList])
               \/ CardKeyError(cards[i]) # ""
    THEN [error |-> "Unexpected error fetching board data"]
    ELSE [board_id |-> board_id,
          cards |-> [i \in 1..Len(cards) |->
                        [listName |->
                             IF ListResolves(Get(cards[i], "idList", None), IdMap(lists))
                             THEN IdMap(lists)[cards[i].idList].name ELSE "Unknown",
                         comments |-> CardComments(cards[i])] @@ cards[i]],
          lists |-> lists,
          members |-> members,
          timestamp |-> timestamp,
          status |-> "success"]

---------------------------------------------------------------------------
(* Boards *)

\* The longest run of one character put before the blocker word of a comment.
PadLen == 46

\* The most cards a list holds in the boards that vary the load of the lists.
MaxPerList == 3

\* The most cards one member is assigned in the boards that vary the workload.
MaxAssigned == 3

\* How far before `now` and after `now + 3 days` the due dates reach.
MaxDueOffset == 1

\* The lists other than Done of the ten card boards.
NumOtherLists == 2

\* The clock reading, in days.
Clock == 10

\* The most days between two analyses of one snapshot.
MaxDelay == 1

\* The most blocked cards of the boards that vary the risks.
MaxBlocked == 3

\* The most cards past their due date of the boards that vary the risks.
MaxLate == 4

Pad(n) == [i \in 1..n |-> "x"]

ToDo == [id |-> "l1", name |-> "To Do", pos |-> 1]

Doing == [id |-> "l2", name |-> "Doing", pos |-> 2]

Done == [id |-> "l3", name |-> "Done", pos |-> 3]

Review == [id |-> "l4", name |-> "Review", pos |-> 4]

\* A second list that is also named Doing.
DoingAgain == [id |-> "l5", name |-> "Doing", pos |-> 5]

Ann == [id |-> "m1", fullName |-> "Ann", username |-> "ann"]

Bob == [id |-> "m2", username |-> "bob"]

\* A second member whose display name is also Ann.
AnnToo == [id |-> "m3", fullName |-> "Ann"]

Team == <<Ann, Bob, AnnToo>>

\* A card with the fields every card of the board service has.
Card(i, list_id) ==
    [id |-> "c" \o ToString(i), name |-> "Card " \o ToString(i),
     url |-> "https://trello.com/c/" \o ToString(i), idList |-> list_id]

Board(cards, lists, members) == run_board_fetcher("b1", cards, lists, members, Clock)

Label(color, name) == [color |-> color, name |-> name]

LabelChoices ==
    { <<>>,
      <<Label("red", <<"B", "u", "g">>)>>,
      <<Label("green", <<"O", "k">>), Label("red", <<"B", "u", "g">>),
        Label("red", <<"H", "o", "t">>)>>,
      <<Label("green", <<"r", "e", "d">>)>>,
      <<[color |-> "red"]>>,
      <<[name |-> <<"r", "e", "d">>], Label("red", <<>>)>> }

Comment(i, text) ==
    [type |-> "commentCard", id |-> "a" \o ToString(i), data |-> [text |-> text],
     date |-> "2024-01-01"]

\* An action that is no comment; the board service is asked for comments
\* only, but the normalizer filters by type.
Update(i, text) ==
    [type |-> "updateCard", id |-> "a" \o ToString(i), data |-> [text |-> text],
     date |-> "2024-01-01"]

ShoutedBlocker == <<"B", "L", "O", "C", "K", "E", "R", "!">>

MixedBlocker == <<"a", " ", "B", "l", "o", "c", "K", "e", "r">>

Blocked == <<"b", "l", "o", "c", "k", "e", "d">>

\* A comment longer than the slice, the blocker word at its end.
LongBlocker(n) == Pad(n) \o ShoutedBlocker

TextChoices == {ShoutedBlocker, MixedBlocker, Blocked} \cup {LongBlocker(n) : n \in {0, PadLen}}

ActionChoices ==
    {<<>>}
    \cup {<<Comment(1, t)>> : t \in TextChoices}
    \cup {<<Comment(1, Blocked), Comment(2, t), Comment(3, ShoutedBlocker)>> : t \in TextChoices}
    \cup {<<Update(1, ShoutedBlocker)>>, <<Update(1, ShoutedBlocker), Comment(2, MixedBlocker)>>}

\* One card boards that vary the labels and the comments of the card.
BlockerBoards ==
    {Board(<<Card(1, "l1") @@ [labels |-> labels, actions |-> actions]>>, <<ToDo, Done>>, Team) :
        labels \in LabelChoices, actions \in ActionChoices}
    \cup {Board(<<Card(1, "l1") @@ [labels |-> labels]>>, <<ToDo, Done>>, Team) :
            labels \in LabelChoices}
    \cup {Board(<<Card(1, "l0") @@ [labels |-> labels, actions |-> <<Comment(1, t)>>],
                  Card(2, "l3")>>, <<ToDo, Done>>, Team) :
            labels \in LabelChoices, t \in {Blocked, MixedBlocker}}

DueChoices ==
    {NoDue, [kind |-> "bad", t |-> 0]}
    \cup {[kind |-> k, t |-> t] :
            k \in {"naive", "Z", "offset"},
            t \in (Clock - MaxDueOffset)..(Clock + ThreeDays + MaxDueOffset)}

\* One card boards that vary the due date of the card and its dueComplete flag.
DueBoards ==
    {Board(<<Card(1, "l1") @@ [due |-> due, dueComplete |-> done]>>, <<ToDo, Done>>, Team) :
        due \in DueChoices, done \in BOOLEAN}
    \cup {Board(<<Card(1, "l1") @@ [due |-> due]>>, <<ToDo, Done>>, Team) : due \in DueChoices}
    \cup {Board(<<Card(1, "l1") @@ [due |-> [kind |-> "naive", t |-> t1]],
                  Card(2, "l3") @@ [due |-> [kind |-> "naive", t |-> t2], dueComplete |-> FALSE]>>,
                <<ToDo, Done>>, Team) :
            t1, t2 \in (Clock - MaxDueOffset)..(Clock + ThreeDays + MaxDueOffset)}

\* counts[k] cards in the k-th list, numbered from `first`.
RECURSIVE CardsInLists(_, _, _)
CardsInLists(counts, list_ids, first) ==
    IF counts = <<>> THEN <<>>
    ELSE [i \in 1..Head(counts) |-> Card(first + i - 1, Head(list_ids))]
            \o CardsInLists(Tail(counts), Tail(list_ids), first + Head(counts))

ListIds(lists) == [i \in 1..Len(lists) |-> lists[i].id]

ListChoices ==
    {<<>>, <<Done>>, <<Done, ToDo>>, <<ToDo, Doing, DoingAgain>>, <<ToDo, Doing, Done, Review>>}

\* Boards that vary the number of cards of each list; `lost` cards more are in
\* a list that is not on the board.
LoadBoards ==
    UNION {{Board(CardsInLists(counts \o <<lost>>, ListIds(lists) \o <<"l0">>, 1),
                  lists, Team) :
               lost \in 0..1, counts \in [1..Len(lists) -> 0..MaxPerList]} :
           lists \in ListChoices}
    \cup {Board(CardsInLists(<<1, 1, 1, 17>>, ListIds(<<ToDo, Doing, Done, Review>>), 1),
                <<ToDo, Doing, Done, Review>>, Team)}

\* counts[k] cards assigned to the k-th member id.
RECURSIVE CardsOfMembers(_, _, _)
CardsOfMembers(counts, member_ids, first) ==
    IF counts = <<>> THEN <<>>
    ELSE [i \in 1..Head(counts) |->
             Card(first + i - 1, "l1") @@ [idMembers |-> <<Head(member_ids)>>]]
            \o CardsOfMembers(Tail(counts), Tail(member_ids), first + Head(counts))

\* Boards that vary the number of cards of each member: m9 is no member of
\* the board, m1 and m3 share a display name; `shared` cards have two members.
WorkloadBoards ==
    {Board(CardsOfMembers(counts, <<"m1", "m2", "m3", "m9">>, 1)
               \o [i \in 1..shared |-> Card(90 + i, "l3") @@ [idMembers |-> <<"m2", "m1">>]],
           <<ToDo, Done>>, Team) :
        shared \in 0..1, counts \in [1..4 -> 0..MaxAssigned]}

OtherLists == SubSeq(<<ToDo, Doing, Review, DoingAgain>>, 1, NumOtherLists)

\* Ten cards, three of them in Done and seven spread over the other lists,
\* without labels, comments or due dates; `skewed` assigns six cards to one
\* member and one card to another.
ScenarioBoards ==
    {Board([i \in 1..10 |->
               LET card == CardsInLists(<<3>> \o counts, <<Done.id>> \o ListIds(OtherLists), 1)[i]
               IN  IF i > 3 /\ skewed
                   THEN card @@ [idMembers |-> IF i < 10 THEN <<"m1">> ELSE <<"m2">>]
                   ELSE card],
           OtherLists \o <<Done>>, Team) :
        skewed \in BOOLEAN,
        counts \in {c \in [1..NumOtherLists -> 0..7] : SumSeq(c) = 7}}

\* Ten cards, `done` of them in Done and the others in To Do.
CompletionBoards ==
    {Board(CardsInLists(<<done, 10 - done>>, <<Done.id, ToDo.id>>, 1), <<ToDo, Done>>, Team) :
        done \in 0..10}

\* `count` cards numbered from `first`, all in To Do and all with `fields`.
CardsWith(count, first, fields) == [i \in 1..count |-> Card(first + i - 1, "l1") @@ fields]

\* Boards that vary the number of blocked cards, of cards past their due date
\* and of cards due tomorrow, next to two cards in Done.
RiskBoards ==
    {Board(CardsWith(blocked, 1, [labels |-> <<Label("red", <<"B", "u", "g">>)>>])
               \o CardsWith(late, 11, [due |-> [kind |-> "naive", t |-> Clock - 1]])
               \o CardsWith(soon, 21, [due |-> [kind |-> "naive", t |-> Clock + 1]])
               \o <<Card(31, "l3"), Card(32, "l3")>>,
           <<ToDo, Done>>, Team) :
        blocked \in 0..MaxBlocked, late \in 0..MaxLate, soon \in 0..1}

\* Lists whose names look like Done.
LowerDone == [id |-> "l8", name |-> "done", pos |-> 8]

DoneSpace == [id |-> "l9", name |-> "Done ", pos |-> 9]

\* A card in the list of the given id; "" stands for a card without list id.
CardIn(i, list_id) ==
    IF list_id = ""
    THEN [id |-> "c" \o ToString(i), name |-> "Card " \o ToString(i)]
    ELSE Card(i, list_id)

\* Two cards, each in To Do, Done, a list that looks like Done, a list that
\* is not on the board, or with a list id that is None or absent.
ListNameBoards ==
    {Board(<<CardIn(1, first), CardIn(2, second)>>, <<ToDo, LowerDone, Done, DoneSpace>>, Team) :
        first, second \in {"l1", "l3", "l8", "l9", "l0", None, ""}}

\* Two cards whose assignees are members of the board (m1, m2), ids that
\* are no member of it (m8, m9), or both.
AssigneeChoices == {<<>>, <<"m9">>, <<"m9", "m1">>, <<"m1", "m9", "m2">>, <<"m9", "m8">>}

StrangerBoards ==
    {Board(<<Card(1, "l1") @@ [idMembers |-> first], Card(2, "l3") @@ [idMembers |-> second]>>,
           <<ToDo, Done>>, Team) :
        first, second \in AssigneeChoices}

\* Boards without cards.
EmptyBoards ==
    {Board(<<>>, lists, members) : lists \in ListChoices, members \in {<<>>, <<Bob>>, Team}}

ErrorMessages == {"Missing API credentials or board ID", "Failed to fetch data from Trello", ""}

\* Snapshots that report a failure, alone or next to other keys, and the
\* empty and the absent snapshot.
ErrorBoards ==
    {[error |-> m] : m \in ErrorMessages}
    \cup {[error |-> m, status |-> "failed"] : m \in ErrorMessages}
    \cup {[error |-> m] @@ Board(<<Card(1, "l3")>>, <<ToDo, Done>>, Team) : m \in ErrorMessages}
    \cup {EmptyDict, NoneObj}

\* A list without name, a list without id, a member without id.
Nameless == [id |-> "l7", pos |-> 7]

Idless == [name |-> "Backlog", pos |-> 0]

Stranger == [fullName |-> "Cy"]

\* A blocked, overdue, assigned card in To Do and a card in Done.
BusyCards ==
    <<Card(1, "l1") @@ [labels |-> <<Label("red", <<"B", "u", "g">>)>>,
                        due |-> [kind |-> "naive", t |-> Clock - 1],
                        idMembers |-> <<"m1">>],
      Card(2, "l3")>>

\* Snapshots with a malformed list or member among well-formed ones, as a
\* caller of the analysis can hand them over.
MalformedBoards ==
    {[Board(BusyCards, <<ToDo, Done>>, Team) EXCEPT !.lists = lists, !.members = members] :
        lists \in {<<ToDo, Done>>, <<ToDo, Done, Nameless>>, <<Nameless, ToDo, Done>>,
                   <<ToDo, Idless, Done>>, <<[pos |-> 9], ToDo>>},
        members \in {Team, <<Ann, Stranger>>, <<Stranger>>}}

\* One card in To Do; the lists come in any order, two of them share the
\* position of To Do and one has no position.
PosBoards ==
    LET QA == [id |-> "l6", name |-> "QA", pos |-> 1]
        Ideas == [id |-> "l10", name |-> "Ideas", pos |-> 1]
        Inbox == [id |-> "l11", name |-> "Inbox"]
        choice == {ToDo, QA, Ideas, Inbox, Done}
    IN  {Board(<<Card(1, "l1")>>, lists, Team) :
            lists \in {l \in [1..4 -> choice] : \A i, j \in 1..4 : l[i] = l[j] => i = j}}

\* Two cards: the first in To Do or Done, with or without due date, with a
\* description, an empty one or none, assigned to nobody, to a member or to
\* somebody who is no member of the board; the second complete and described,
\* with or without a member.
GapBoards ==
    {Board(<<(Card(1, list_id) @@ [idMembers |-> assigned])
                @@ (IF desc = None THEN <<>> ELSE [desc |-> desc])
                @@ (IF due = NoDue THEN <<>> ELSE [due |-> due]),
             Card(2, "l3") @@ [desc |-> "Ship it", idMembers |-> second]>>,
           <<ToDo, Done>>, Team) :
        list_id \in {"l1", "l3"}, assigned \in {<<>>, <<"m1">>, <<"m9">>},
        desc \in {None, "", "Fix it"},
        due \in {NoDue, [kind |-> "naive", t |-> Clock + 1]},
        second \in {<<>>, <<"m2">>}}

Boards ==
    GapBoards \cup PosBoards \cup BlockerBoards \cup DueBoards \cup LoadBoards \cup WorkloadBoards \cup ScenarioBoards
        \cup EmptyBoards \cup ErrorBoards \cup MalformedBoards \cup CompletionBoards
        \cup RiskBoards \cup ListNameBoards \cup StrangerBoards

---------------------------------------------------------------------------
(* The run: a snapshot is fetched, then normalized and analyzed, or analyzed  *)
(* as fetched (the fetcher's cards carry listName and comments too).         *)

Init ==
    /\ board_data \in Boards
    /\ now = Clock
    /\ pc = "fetched"
    /\ processed_data = NoneObj
    /\ analysis_results = NoneObj
    /\ data_gaps = NoneObj

\* Mutant: the lists of the snapshot are sorted in place.
ListsSortedInPlace(bd) ==
    IF "lists" \in DOMAIN bd THEN [bd EXCEPT !.lists = SortedByPos(bd.lists)] ELSE bd

\* The raw snapshot as process_trello_data leaves it: the maps, the processed
\* cards and the sorted lists are new objects, nothing is stored into it.
SnapshotAfterNormalizing(bd) == bd

\* The snapshot as analyze_sprint_data leaves it: the components only read it.
SnapshotAfterAnalysis(pd) == pd

ProcessTrelloData ==
    /\ pc = "fetched"
    /\ processed_data' = process_trello_data(board_data)
    /\ board_data' = SnapshotAfterNormalizing(board_data)
    /\ pc' = IF IsRaised(processed_data') THEN "raised" ELSE "processed"
    /\ UNCHANGED <<now, analysis_results, data_gaps>>

AnalyzeSprintData ==
    /\ pc = "processed"
    /\ analysis_results' = analyze_sprint_data(processed_data, now)
    /\ processed_data' = SnapshotAfterAnalysis(processed_data)
    /\ pc' = IF IsRaised(analysis_results') THEN "raised" ELSE "analyzed"
    /\ UNCHANGED <<board_data, now, data_gaps>>

AnalyzeBoardData ==
    /\ pc = "fetched"
    /\ analysis_results' = analyze_sprint_data(board_data, now)
    /\ board_data' = SnapshotAfterAnalysis(board_data)
    /\ pc' = IF IsRaised(analysis_results') THEN "raised" ELSE "analyzed_board"
    /\ UNCHANGED <<now, processed_data, data_gaps>>

\* The normalizer is called once more on the same raw snapshot.
ProcessTrelloDataAgain ==
    /\ pc = "processed"
    /\ processed_data' = process_trello_data(board_data)
    /\ board_data' = SnapshotAfterNormalizing(board_data)
    /\ pc' = "processed_again"
    /\ UNCHANGED <<now, analysis_results, data_gaps>>

\* The analysis is called once more on the same normalized snapshot, `delay`
\* days after the first call.
AnalyzeSprintDataAgain ==
    /\ pc = "analyzed"
    /\ \E delay \in 0..MaxDelay :
          /\ now' = now + delay
          /\ analysis_results' = analyze_sprint_data(processed_data, now')
    /\ processed_data' = SnapshotAfterAnalysis(processed_data)
    /\ pc' = "analyzed_again"
    /\ UNCHANGED <<board_data, data_gaps>>

\* The data-gap scan of a normalized snapshot.
IdentifyDataGaps ==
    /\ pc = "processed"
    /\ data_gaps' = identify_data_gaps(processed_data)
    /\ pc' = "gaps_identified"
    /\ UNCHANGED <<board_data, now, processed_data, analysis_results>>

Next ==
    \/ IdentifyDataGaps
    \/ ProcessTrelloData
    \/ AnalyzeSprintData
    \/ AnalyzeBoardData
    \/ ProcessTrelloDataAgain
    \/ AnalyzeSprintDataAgain

Spec == Init /\ [][Next]_vars

---------------------------------------------------------------------------
(* Properties *)

\* The snapshot the analysis was run on.
AnalysisInput == IF pc = "analyzed" THEN processed_data ELSE board_data

Analyzed == pc \in {"analyzed", "analyzed_board"}

\* An analysis that was computed, not short-circuited.
AnalysisDone == Analyzed /\ "error" \notin DOMAIN analysis_results

\* C1: when the snapshot handed to analyze_sprint_data carries an error key,
\* whatever else it carries, the result is the object whose only key is error
\* and whose value is the error message of the snapshot.
C1_AnalysisPropagatesError ==
    (Analyzed /\ "error" \in DOMAIN AnalysisInput) =>
        /\ DOMAIN analysis_results = {"error"}
        /\ analysis_results.error = AnalysisInput.error

\* A snapshot with an error next to its cards was analyzed.
C1_Witness ==
    /\ pc = "analyzed_board"
    /\ {"error", "cards", "lists"} \subseteq DOMAIN board_data
    /\ board_data.error # ""
    /\ analysis_results = [error |-> board_data.error]

\* C2: when the raw snapshot carries an error key, process_trello_data returns
\* exactly the object {error: message}: no cards, lists, members, board_id,
\* cards_by_list or timestamp.
C2_NormalizerPropagatesError ==
    (pc = "processed" /\ "error" \in DOMAIN board_data) =>
        /\ DOMAIN processed_data = {"error"}
        /\ processed_data.error = board_data.error

\* A snapshot with an error next to its cards was normalized.
C2_Witness ==
    /\ pc = "processed"
    /\ {"error", "cards", "lists"} \subseteq DOMAIN board_data
    /\ board_data.error # ""
    /\ processed_data = [error |-> board_data.error]

\* C3: the analysis of a snapshot without cards has completion_rate 0 and
\* projected_completion "Cannot estimate", and no component reports a failure
\* (a division by zero would surface as an error of the component or of the
\* analysis).
C3_EmptyBoard ==
    (Analyzed /\ "error" \notin DOMAIN AnalysisInput /\ AnalysisInput # EmptyDict
        /\ Get(AnalysisInput, "cards", <<>>) = <<>>) =>
        /\ "error" \notin DOMAIN analysis_results
        /\ analysis_results.sprint_metrics.completion_rate = <<0, 1>>
        /\ analysis_results.burn_down.projected_completion = [text |-> "Cannot estimate"]
        /\ "error" \notin DOMAIN analysis_results.sprint_metrics
        /\ "error" \notin DOMAIN analysis_results.team_performance
        /\ "error" \notin DOMAIN analysis_results.process_bottlenecks
        /\ analysis_results.velocity.current_sprint.completion_percentage = <<0, 1>>

\* A board with lists and members but no card went through both stages.
C3_Witness ==
    /\ pc = "analyzed"
    /\ AnalysisDone
    /\ processed_data.cards = <<>>
    /\ Len(processed_data.lists) > 1
    /\ processed_data.members # <<>>
    /\ analysis_results.sprint_metrics.total_cards = 0
    /\ analysis_results.burn_down.projected_completion = CannotEstimate

\* The cards of the raw snapshot that was normalized.
RawCards == Get(board_data, "cards", <<>>)

Normalized == pc = "processed" /\ "error" \notin DOMAIN processed_data

IsRed(label) == "color" \in DOMAIN label /\ label.color = "red"

HasRedLabel(card) ==
    "labels" \in DOMAIN card /\ \E k \in 1..Len(card.labels) : IsRed(card.labels[k])

\* The first red label of a card that has one.
FirstRedLabel(card) ==
    card.labels[CHOOSE k \in 1..Len(card.labels) :
        IsRed(card.labels[k]) /\ \A j \in 1..(k - 1) : ~IsRed(card.labels[j])]

\* The texts of the comments of a raw card, in order.
RawCommentTexts(card) ==
    IF "actions" \notin DOMAIN card THEN <<>>
    ELSE LET at == {k \in 1..Len(card.actions) : card.actions[k].type = "commentCard"}
             Rank(k) == Cardinality({j \in at : j <= k})
         IN  [r \in 1..Cardinality(at) |-> card.actions[CHOOSE k \in at : Rank(k) = r].data.text]

\* The n-th letter of "blocker", in either case.
BlockerLetter(n) ==
    {<<"b", "l", "o", "c", "k", "e", "r">>[n], <<"B", "L", "O", "C", "K", "E", "R">>[n]}

\* The text spells "blocker" somewhere, in any mix of cases.
MentionsBlocker(text) ==
    \E at \in 0..(Len(text) - 7) : \A n \in 1..7 : text[at + n] \in BlockerLetter(n)

\* C4: a card with a red label is normalized to a blocker whose reason is
\* "Red label: " followed by the name of its first red label ("Blocker" when
\* that label has no name), whatever its comments are.
C4_RedLabelIsBlocker ==
    Normalized =>
        \A i \in 1..Len(RawCards) :
            HasRedLabel(RawCards[i]) =>
                /\ processed_data.cards[i].isBlocker
                /\ processed_data.cards[i].blockerReason =
                       <<"R", "e", "d", " ", "l", "a", "b", "e", "l", ":", " ">>
                           \o (IF "name" \in DOMAIN FirstRedLabel(RawCards[i])
                               THEN FirstRedLabel(RawCards[i]).name
                               ELSE <<"B", "l", "o", "c", "k", "e", "r">>)

\* A card with two red labels behind a green one, and a comment that mentions
\* a blocker, was normalized by its first red label.
C4_Witness ==
    /\ Normalized
    /\ \E i \in 1..Len(RawCards) :
          /\ HasRedLabel(RawCards[i])
          /\ ~IsRed(RawCards[i].labels[1])
          /\ Cardinality({k \in 1..Len(RawCards[i].labels) : IsRed(RawCards[i].labels[k])}) > 1
          /\ \E k \in 1..Len(RawCommentTexts(RawCards[i])) :
                MentionsBlocker(RawCommentTexts(RawCards[i])[k])
          /\ processed_data.cards[i].isBlocker
          /\ processed_data.cards[i].blockerReason = RedLabelPrefix \o <<"B", "u", "g">>

\* C5: a card without red label is normalized to a blocker iff one of its
\* comments mentions "blocker" in any letter case; the reason is then "Blocker
\* mentioned in comment: ", the first 50 characters of the first such comment
\* and "..."; with neither cause isBlocker is false and blockerReason is None.
C5_CommentIsBlocker ==
    Normalized =>
        \A i \in 1..Len(RawCards) :
            ~HasRedLabel(RawCards[i]) =>
                LET texts == RawCommentTexts(RawCards[i])
                    hits == {k \in 1..Len(texts) : MentionsBlocker(texts[k])}
                    first == texts[CHOOSE k \in hits : \A j \in hits : k <= j]
                    card == processed_data.cards[i]
                IN  /\ card.isBlocker <=> hits # {}
                    /\ hits = {} => card.blockerReason = NoReason
                    /\ hits # {} =>
                          /\ Len(card.blockerReason) =
                                 30 + (IF Len(first) < 50 THEN Len(first) ELSE 50) + 3
                          /\ SubSeq(card.blockerReason, 1, 30) = CommentPrefix
                          /\ \A n \in 1..(Len(card.blockerReason) - 33) :
                                card.blockerReason[30 + n] = first[n]
                          /\ \A n \in 1..3 :
                                card.blockerReason[Len(card.blockerReason) - 3 + n] = "."

\* A card without red label whose second comment, longer than 50 characters
\* and in upper case, is the first to mention a blocker was normalized.
C5_Witness ==
    /\ Normalized
    /\ \E i \in 1..Len(RawCards) :
          LET texts == RawCommentTexts(RawCards[i]) IN
          /\ ~HasRedLabel(RawCards[i])
          /\ Len(texts) > 1
          /\ ~MentionsBlocker(texts[1])
          /\ MentionsBlocker(texts[2])
          /\ Len(texts[2]) > 50
          /\ ~Contains(texts[2], BlockerWord)
          /\ processed_data.cards[i].isBlocker
          /\ Len(processed_data.cards[i].blockerReason) = 83

\* The cards, lists and results of the analysis that was run.
InputCards == Get(AnalysisInput, "cards", <<>>)

InputLists == Get(AnalysisInput, "lists", <<>>)

TeamPerformance == analysis_results.team_performance

SprintMetrics == analysis_results.sprint_metrics

ProcessBottlenecks == analysis_results.process_bottlenecks

\* The number of (card, member) assignments of the analyzed snapshot.
TotalAssignments ==
    SumSeq([i \in 1..Len(InputCards) |-> Len(Get(InputCards[i], "idMembers", <<>>))])

\* C6: members_with_high_workload holds exactly the member buckets whose total
\* is strictly greater than 1.5 times the average (all assignments divided by
\* the number of buckets), so it is non-empty iff there is such a bucket, and a
\* bucket at exactly 1.5 times the average is not reported.
C6_HighWorkload ==
    (AnalysisDone /\ "error" \notin DOMAIN TeamPerformance) =>
        LET by_member == TeamPerformance.cards_by_member
            high == TeamPerformance.members_with_high_workload
            buckets == Cardinality(DOMAIN by_member)
            over == {m \in DOMAIN by_member :
                        2 * buckets * by_member[m].total > 3 * TotalAssignments}
        IN  /\ buckets > 0 =>
                  TeamPerformance.avg_cards_per_member[1] * buckets
                      = TotalAssignments * TeamPerformance.avg_cards_per_member[2]
            /\ (high # <<>>) <=> (over # {})
            /\ {high[i].name : i \in 1..Len(high)} = over
            /\ Len(high) = Cardinality(over)
            /\ \A i \in 1..Len(high) : high[i].cards_count = by_member[high[i].name].total

\* A member bucket holds exactly 1.5 times the average and is not reported.
C6_Witness ==
    /\ AnalysisDone
    /\ "error" \notin DOMAIN TeamPerformance
    /\ \E m \in DOMAIN TeamPerformance.cards_by_member :
          /\ TeamPerformance.cards_by_member[m].total > 0
          /\ 2 * Cardinality(DOMAIN TeamPerformance.cards_by_member)
                 * TeamPerformance.cards_by_member[m].total = 3 * TotalAssignments
          /\ \A i \in 1..Len(TeamPerformance.members_with_high_workload) :
                TeamPerformance.members_with_high_workload[i].name # m

\* A member bucket above 1.5 times the average is reported.
C6_WitnessReported ==
    /\ AnalysisDone
    /\ "error" \notin DOMAIN TeamPerformance
    /\ Cardinality(DOMAIN TeamPerformance.cards_by_member) = 3
    /\ Len(TeamPerformance.members_with_high_workload) = 1

RiskCategories == {analysis_results.risks[i].category : i \in 1..Len(analysis_results.risks)}

\* The risk categories with approaching_deadlines and overdue taken as one.
CollapsedCategories ==
    (RiskCategories \ {"approaching_deadlines", "overdue"})
        \cup (IF RiskCategories \cap {"approaching_deadlines", "overdue"} # {}
              THEN {"deadlines"} ELSE {})

\* C7: the number of recommendations is the number of distinct risk categories,
\* approaching_deadlines and overdue counting as one; with no risk it is 1.
C7_RecommendationCount ==
    AnalysisDone =>
        Len(analysis_results.recommendations) =
            IF analysis_results.risks = <<>> THEN 1 ELSE Cardinality(CollapsedCategories)

\* Both deadline risks fired in one run and gave one recommendation between them.
C7_Witness ==
    /\ AnalysisDone
    /\ {"approaching_deadlines", "overdue"} \subseteq RiskCategories
    /\ Len(analysis_results.recommendations) = Len(analysis_results.risks) - 1

\* No risk fired and the fallback is the only recommendation.
C7_WitnessFallback ==
    /\ AnalysisDone
    /\ analysis_results.risks = <<>>
    /\ InputCards # <<>>
    /\ Len(analysis_results.recommendations) = 1

\* The list a card is in, by the list ids of the snapshot.
InListNamed(card, name) ==
    \E k \in 1..Len(InputLists) :
        /\ "idList" \in DOMAIN card
        /\ InputLists[k].id = card.idList
        /\ InputLists[k].name = name

Plain(card) ==
    /\ Get(card, "labels", <<>>) = <<>>
    /\ Get(card, "comments", <<>>) = <<>>
    /\ Get(card, "due", NoDue) = NoDue

\* Ten cards without labels, comments or due dates, three of them in the list
\* named Done and the others in the other lists of the snapshot.
TenCardScenario ==
    /\ AnalysisDone
    /\ Len(InputCards) = 10
    /\ \A i \in 1..10 : Plain(InputCards[i])
    /\ \A i \in 1..10 : \E k \in 1..Len(InputLists) : InListNamed(InputCards[i], InputLists[k].name)
    /\ Cardinality({i \in 1..10 : InListNamed(InputCards[i], "Done")}) = 3

RecommendationCategories ==
    {analysis_results.recommendations[i].category :
        i \in 1..Len(analysis_results.recommendations)}

\* C8 as stated: the scenario yields completion_rate 30, a completion_rate risk
\* of severity high and exactly one recommendation, of category completion_rate.
C8_ExactlyOneRecommendation ==
    TenCardScenario =>
        /\ SprintMetrics.completion_rate = <<30, 1>>
        /\ \E i \in 1..Len(analysis_results.risks) :
              analysis_results.risks[i] = [category |-> "completion_rate", severity |-> "high"]
        /\ Len(analysis_results.recommendations) = 1
        /\ analysis_results.recommendations[1].category = "completion_rate"

\* C8, with every recommendation accounted for: the scenario yields
\* completion_rate 30, a completion_rate risk of severity high and a first
\* recommendation of category completion_rate; a
\* process recommendation follows iff a list is a bottleneck, a workload
\* recommendation iff a member is overloaded, and there is no other.
C8_ScenarioRecommendations ==
    TenCardScenario =>
        /\ SprintMetrics.completion_rate = <<30, 1>>
        /\ \E i \in 1..Len(analysis_results.risks) :
              analysis_results.risks[i] = [category |-> "completion_rate", severity |-> "high"]
        /\ analysis_results.recommendations[1].category = "completion_rate"
        /\ "process" \in RecommendationCategories <=> ProcessBottlenecks.bottlenecks # <<>>
        /\ "workload" \in RecommendationCategories
              <=> TeamPerformance.members_with_high_workload # <<>>
        /\ RecommendationCategories \subseteq {"completion_rate", "process", "workload"}
        /\ Len(analysis_results.recommendations) = Cardinality(RecommendationCategories)

\* The seven other cards are all in one of two other lists: that list is a
\* bottleneck and a second recommendation is made.
C8_Witness ==
    /\ TenCardScenario
    /\ pc = "analyzed"
    /\ Len(InputLists) = 3
    /\ Len(ProcessBottlenecks.bottlenecks) = 1
    /\ ProcessBottlenecks.bottlenecks[1].card_count = 7
    /\ Len(analysis_results.recommendations) = 2

\* A card's due text is a timestamp, with or without UTC designator.
DueParses(card) == Get(card, "due", NoDue).kind \in {"naive", "Z", "offset"}

Listed(entries, card) == \E k \in 1..Len(entries) : entries[k].id = card.id

\* C9: a card whose due timestamp parses (also one with the Z suffix) and lies
\* before now is in overdue_cards when dueComplete is false, and in neither
\* overdue_cards nor approaching_deadlines when dueComplete is true.
C9_PastDueIsOverdue ==
    (AnalysisDone /\ "error" \notin DOMAIN SprintMetrics) =>
        \A i \in 1..Len(InputCards) :
            (DueParses(InputCards[i]) /\ InputCards[i].due.t < now) =>
                IF Get(InputCards[i], "dueComplete", FALSE)
                THEN /\ ~Listed(SprintMetrics.overdue_cards, InputCards[i])
                     /\ ~Listed(SprintMetrics.approaching_deadlines, InputCards[i])
                ELSE Listed(SprintMetrics.overdue_cards, InputCards[i])

\* The names of the lists of the analyzed snapshot.
InputListNames == {InputLists[k].name : k \in 1..Len(InputLists)}

\* The number of cards in the lists of one name.
CardsNamed(name) == Cardinality({i \in 1..Len(InputCards) : InListNamed(InputCards[i], name)})

\* The number of cards in the lists of the given names.
RECURSIVE CardsNamedIn(_)
CardsNamedIn(names) ==
    IF names = {} THEN 0
    ELSE LET first == CHOOSE n \in names : TRUE
         IN  CardsNamed(first) + CardsNamedIn(names \ {first})

\* C10: a list is reported as a bottleneck iff its card count is strictly
\* greater than 1.5 times the average, the sum of the per-list counts divided
\* by the number of distinct list names; each entry carries the count and
\* count / average.  Counts 1, 1, 1, 17 give average 5 and one bottleneck,
\* the list with 17, of ratio 3.4.
C10_Bottlenecks ==
    (AnalysisDone /\ "error" \notin DOMAIN ProcessBottlenecks) =>
        LET found == ProcessBottlenecks.bottlenecks
            lists == Cardinality(InputListNames)
            sum == CardsNamedIn(InputListNames)
            over == {n \in InputListNames : 2 * lists * CardsNamed(n) > 3 * sum}
        IN  /\ {found[i].list_name : i \in 1..Len(found)} = over
            /\ Len(found) = Cardinality(over)
            /\ \A i \in 1..Len(found) :
                  /\ found[i].card_count = CardsNamed(found[i].list_name)
                  /\ found[i].ratio_to_avg[1] * sum
                         = found[i].card_count * lists * found[i].ratio_to_avg[2]
            /\ lists > 0 =>
                  ProcessBottlenecks.avg_cards_per_list[1] * lists
                      = sum * ProcessBottlenecks.avg_cards_per_list[2]
            /\ (lists = 4 /\ (\E n \in InputListNames : CardsNamed(n) = 17)
                    /\ (\A n \in InputListNames : CardsNamed(n) \in {1, 17})) =>
                  /\ ProcessBottlenecks.avg_cards_per_list = <<5, 1>>
                  /\ Len(found) = 1
                  /\ found[1].card_count = 17
                  /\ found[1].ratio_to_avg = <<17, 5>>

\* The board with counts 1, 1, 1, 17 was analyzed: its one bottleneck is the
\* list with 17 cards.
C10_Witness ==
    /\ AnalysisDone
    /\ Len(InputCards) = 20
    /\ "error" \notin DOMAIN ProcessBottlenecks
    /\ ProcessBottlenecks.bottlenecks =
           <<[list_name |-> "Review", card_count |-> 17, ratio_to_avg |-> <<17, 5>>]>>

\* Two lists share a name and their cards are counted together.
C10_WitnessSharedName ==
    /\ AnalysisDone
    /\ "error" \notin DOMAIN ProcessBottlenecks
    /\ Cardinality(InputListNames) < Len(InputLists)
    /\ Len(ProcessBottlenecks.bottlenecks) = 1
    /\ ProcessBottlenecks.bottlenecks[1].list_name = "Doing"
    /\ \A k \in 1..Len(InputLists) :
          Cardinality({i \in 1..Len(InputCards) :
              "idList" \in DOMAIN InputCards[i] /\ InputCards[i].idList = InputLists[k].id})
            < ProcessBottlenecks.bottlenecks[1].card_count

\* The members of the raw snapshot that was normalized.
RawMembers == Get(board_data, "members", <<>>)

\* The (card, member id) assignments of the raw snapshot whose member id
\* resolves to a member of the snapshot.
RawAssignments ==
    SelectSeq(Assignments(RawCards),
              LAMBDA a : \E k \in 1..Len(RawMembers) : Get(RawMembers[k], "id", None) = a.member_id)

\* C11: after normalization and analysis every member assigned to a card of
\* the raw snapshot has an entry in cards_by_member (under the member's
\* display name) whose total is the number of assignments of that name.
C11_AssignedMembersCounted ==
    (pc = "analyzed" /\ AnalysisDone /\ "error" \notin DOMAIN TeamPerformance) =>
        \A k \in 1..Len(RawAssignments) :
            LET name == BucketName(RawAssignments[k].member_id, RawMembers) IN
            /\ name \in DOMAIN TeamPerformance.cards_by_member
            /\ TeamPerformance.cards_by_member[name].total =
                   Cardinality({j \in 1..Len(RawAssignments) :
                       BucketName(RawAssignments[j].member_id, RawMembers) = name})

\* A result without the timestamp of its run.
WithoutTimestamp(result) == [k \in DOMAIN result \ {"timestamp"} |-> result[k]]

C12_WitnessLater ==
    /\ pc = "analyzed_again"
    /\ now = Clock + 1
    /\ "error" \notin DOMAIN analysis_results
    /\ analysis_results.timestamp = now
    /\ \E i \in 1..Len(processed_data.cards) :
          /\ processed_data.cards[i].due = [kind |-> "naive", t |-> Clock]
          /\ Listed(analysis_results.sprint_metrics.overdue_cards, processed_data.cards[i])

InputMembers == Get(AnalysisInput, "members", <<>>)

\* A list of the analyzed snapshot has no id or no name.
MalformedList == \E k \in 1..Len(InputLists) : ~({"id", "name"} \subseteq DOMAIN InputLists[k])

\* A member of the analyzed snapshot has no id.
MalformedMember == \E k \in 1..Len(InputMembers) : "id" \notin DOMAIN InputMembers[k]

\* C13: a failure of calculate_sprint_metrics, analyze_team_performance or
\* identify_process_bottlenecks on a malformed list or member never reaches
\* the caller: the analysis returns, and the component's result has error set
\* and every other field at its default (counts 0, completion_rate 0, lists
\* and mappings empty).
C13_ComponentsContainFailures ==
    /\ pc = "raised" => board_data = NoneObj
    /\ AnalysisDone =>
          /\ MalformedList <=> "error" \in DOMAIN SprintMetrics
          /\ MalformedList <=> "error" \in DOMAIN ProcessBottlenecks
          /\ MalformedMember <=> "error" \in DOMAIN TeamPerformance
          /\ "error" \in DOMAIN SprintMetrics =>
                SprintMetrics =
                    [error |-> SprintMetrics.error, total_cards |-> 0, cards_by_list |-> <<>>,
                     completion_rate |-> <<0, 1>>, blockers |-> <<>>,
                     approaching_deadlines |-> <<>>, overdue_cards |-> <<>>,
                     blockers_count |-> 0, approaching_deadlines_count |-> 0,
                     overdue_count |-> 0]
          /\ "error" \in DOMAIN TeamPerformance =>
                TeamPerformance =
                    [error |-> TeamPerformance.error, cards_by_member |-> <<>>,
                     avg_cards_per_member |-> <<0, 1>>, members_with_high_workload |-> <<>>,
                     member_count |-> 0]
          /\ "error" \in DOMAIN ProcessBottlenecks =>
                ProcessBottlenecks =
                    [error |-> ProcessBottlenecks.error, cards_by_list |-> <<>>,
                     avg_cards_per_list |-> <<0, 1>>, bottlenecks |-> <<>>]

\* A snapshot whose last list has no name, behind lists that hold a blocked
\* and overdue card, was analyzed: the metrics and the bottlenecks failed,
\* the team performance did not.
C13_Witness ==
    /\ pc = "analyzed_board"
    /\ AnalysisDone
    /\ Len(InputLists) = 3
    /\ "name" \notin DOMAIN InputLists[3]
    /\ SprintMetrics.error = "'name'"
    /\ ProcessBottlenecks.error = "'name'"
    /\ "error" \notin DOMAIN TeamPerformance
    /\ TeamPerformance.member_count = 1
    /\ SprintMetrics.blockers = <<>>

\* A member without id makes the team performance fail and nothing else.
C13_WitnessMember ==
    /\ pc = "analyzed_board"
    /\ AnalysisDone
    /\ MalformedMember
    /\ ~MalformedList
    /\ TeamPerformance.error = "'id'"
    /\ SprintMetrics.blockers_count = 1

Risks == analysis_results.risks

\* The positions of the risks of one category.
RisksOf(category) == {i \in 1..Len(Risks) : Risks[i].category = category}

\* C14: there is a completion_rate risk iff completion_rate < 70, and it is
\* high iff completion_rate < 50, else medium: at 70 there is none, at 50 it
\* is medium.
C14_CompletionRateRisk ==
    AnalysisDone =>
        LET rate == SprintMetrics.completion_rate IN
        /\ Cardinality(RisksOf("completion_rate")) = (IF rate[1] < 70 * rate[2] THEN 1 ELSE 0)
        /\ \A i \in RisksOf("completion_rate") :
              Risks[i].severity = (IF rate[1] < 50 * rate[2] THEN "high" ELSE "medium")

\* A board at exactly 50 percent is at medium risk.
C14_Witness ==
    /\ AnalysisDone
    /\ Len(InputCards) = 10
    /\ SprintMetrics.completion_rate = <<50, 1>>
    /\ \E i \in RisksOf("completion_rate") : Risks[i].severity = "medium"

\* A board at exactly 70 percent is at no risk.
C14_WitnessAtBar ==
    /\ AnalysisDone
    /\ SprintMetrics.completion_rate = <<70, 1>>
    /\ RisksOf("completion_rate") = {}

\* A board at 40 percent is at high risk.
C14_WitnessHigh ==
    /\ AnalysisDone
    /\ SprintMetrics.completion_rate = <<40, 1>>
    /\ \E i \in RisksOf("completion_rate") : Risks[i].severity = "high"

\* The number of risks of a category is 1 when `fires` and 0 otherwise, and
\* the risk has the given severity.
RiskRule(category, fires, severity) ==
    /\ Cardinality(RisksOf(category)) = (IF fires THEN 1 ELSE 0)
    /\ \A i \in RisksOf(category) : Risks[i].severity = severity

\* C15: the blockers, approaching_deadlines and overdue risks fire each iff
\* the list of the metrics it is named after is non-empty, whatever the other
\* two do; blockers is high iff there are more than 2 blockers, overdue is
\* high iff there are more than 3 overdue cards, else medium, and
\* approaching_deadlines is always medium.
C15_MetricsRisks ==
    AnalysisDone =>
        /\ RiskRule("blockers", SprintMetrics.blockers # <<>>,
                    IF Len(SprintMetrics.blockers) > 2 THEN "high" ELSE "medium")
        /\ RiskRule("approaching_deadlines", SprintMetrics.approaching_deadlines # <<>>,
                    "medium")
        /\ RiskRule("overdue", SprintMetrics.overdue_cards # <<>>,
                    IF Len(SprintMetrics.overdue_cards) > 3 THEN "high" ELSE "medium")

\* The three risks fired in one run: three blockers are many, three overdue
\* cards are not.
C15_Witness ==
    /\ AnalysisDone
    /\ Len(SprintMetrics.blockers) = 3
    /\ Len(SprintMetrics.overdue_cards) = 3
    /\ Len(SprintMetrics.approaching_deadlines) = 1
    /\ \E i \in RisksOf("blockers") : Risks[i].severity = "high"
    /\ \E i \in RisksOf("overdue") : Risks[i].severity = "medium"
    /\ \E i \in RisksOf("approaching_deadlines") : Risks[i].severity = "medium"

\* Four overdue cards are many, two blockers are not, and no card is due soon.
C15_WitnessOverdue ==
    /\ AnalysisDone
    /\ Len(SprintMetrics.blockers) = 2
    /\ Len(SprintMetrics.overdue_cards) = 4
    /\ SprintMetrics.approaching_deadlines = <<>>
    /\ \E i \in RisksOf("blockers") : Risks[i].severity = "medium"
    /\ \E i \in RisksOf("overdue") : Risks[i].severity = "high"
    /\ RisksOf("approaching_deadlines") = {}

Bottlenecks == ProcessBottlenecks.bottlenecks

\* C16: there is a process_bottlenecks risk iff a bottleneck was found, high
\* iff the ratio to the average of one of them is more than 2, else medium;
\* there is a workload_imbalance risk, of severity medium, iff a member has a
\* high workload.
C16_StructureRisks ==
    AnalysisDone =>
        /\ RiskRule("process_bottlenecks", Bottlenecks # <<>>,
                    IF \E i \in 1..Len(Bottlenecks) :
                           Bottlenecks[i].ratio_to_avg[1] > 2 * Bottlenecks[i].ratio_to_avg[2]
                    THEN "high" ELSE "medium")
        /\ RiskRule("workload_imbalance", TeamPerformance.members_with_high_workload # <<>>,
                    "medium")

\* A list at exactly twice the average is a bottleneck of medium severity.
C16_Witness ==
    /\ AnalysisDone
    /\ Len(Bottlenecks) = 1
    /\ Bottlenecks[1].ratio_to_avg = <<2, 1>>
    /\ \E i \in RisksOf("process_bottlenecks") : Risks[i].severity = "medium"

\* A list above twice the average is a bottleneck of high severity.
C16_WitnessHigh ==
    /\ AnalysisDone
    /\ Len(Bottlenecks) = 1
    /\ Bottlenecks[1].ratio_to_avg = <<3, 1>>
    /\ \E i \in RisksOf("process_bottlenecks") : Risks[i].severity = "high"

\* A member with a high workload and a bottleneck were found in one run.
C16_WitnessWorkload ==
    /\ AnalysisDone
    /\ TeamPerformance.members_with_high_workload # <<>>
    /\ Bottlenecks # <<>>
    /\ \E i \in RisksOf("workload_imbalance") : Risks[i].severity = "medium"
    /\ RisksOf("process_bottlenecks") # {}

Recommendations == analysis_results.recommendations

\* The positions of the recommendations of one category.
RecommendationsOf(category) ==
    {i \in 1..Len(Recommendations) : Recommendations[i].category = category}

\* C17: there is exactly one deadlines recommendation when
\* approaching_deadlines, overdue or both are among the risk categories and
\* none otherwise; every recommendation has exactly 3 action items; the
\* general recommendation, of low priority, is made iff no risk fired, and is
\* then the only one.
C17_DeadlinesAndFallback ==
    AnalysisDone =>
        /\ Cardinality(RecommendationsOf("deadlines")) =
               (IF "approaching_deadlines" \in RiskCategories \/ "overdue" \in RiskCategories
                THEN 1 ELSE 0)
        /\ \A i \in 1..Len(Recommendations) : Len(Recommendations[i].action_items) = 3
        /\ RecommendationsOf("general") # {} <=> Risks = <<>>
        /\ RecommendationsOf("general") # {} =>
              /\ Len(Recommendations) = 1
              /\ Recommendations[1].priority = "low"

\* Cards are overdue, none is due soon, and other risks fired too: one
\* deadlines recommendation is among several.
C17_Witness ==
    /\ AnalysisDone
    /\ "overdue" \in RiskCategories
    /\ "approaching_deadlines" \notin RiskCategories
    /\ Cardinality(RecommendationsOf("deadlines")) = 1
    /\ Len(Recommendations) = 3
    /\ RecommendationsOf("general") = {}

\* No risk fired on a board with cards: the general recommendation is alone.
C17_WitnessGeneral ==
    /\ AnalysisDone
    /\ Risks = <<>>
    /\ Len(InputCards) = 10
    /\ Len(Recommendations) = 1
    /\ Recommendations[1].category = "general"
    /\ Recommendations[1].priority = "low"

\* The cards of the analyzed snapshot whose list id is the id of one of its lists.
ResolvedCards ==
    {i \in 1..Len(InputCards) :
        \E k \in 1..Len(InputLists) :
            "idList" \in DOMAIN InputCards[i] /\ InputCards[i].idList = InputLists[k].id}

\* C18: cards_by_list of the sprint metrics has an entry for every list name
\* of the snapshot and no other, each entry counts the cards whose list id
\* resolves to that name (0 when there is none), and a card whose list id
\* does not resolve is counted in total_cards and in no entry.
C18_CardsByList ==
    (AnalysisDone /\ "error" \notin DOMAIN SprintMetrics) =>
        LET cards_by_list == SprintMetrics.cards_by_list IN
        /\ DOMAIN cards_by_list = InputListNames
        /\ \A n \in InputListNames : cards_by_list[n] = CardsNamed(n)
        /\ SprintMetrics.total_cards = Len(InputCards)
        /\ "Unknown" \notin DOMAIN cards_by_list

\* A card is in a list that is not on the board, and a list of the board is
\* empty: the card is in the total and in no entry, the list has entry 0.
C18_Witness ==
    /\ AnalysisDone
    /\ "error" \notin DOMAIN SprintMetrics
    /\ Cardinality(ResolvedCards) = Len(InputCards) - 1
    /\ SprintMetrics.total_cards = 4
    /\ SprintMetrics.cards_by_list = [Done |-> 3] @@ ("To Do" :> 0)

RawLists == Get(board_data, "lists", <<>>)

\* The lists of the raw snapshot that a raw card's list id names.
ListsOf(card) ==
    {k \in 1..Len(RawLists) : "idList" \in DOMAIN card /\ card.idList = RawLists[k].id}

\* C19: the normalizer gives every card the name of the list its list id
\* resolves to, or "Unknown" when the id is absent or names no list of the
\* snapshot, and isComplete is true iff that name is exactly "Done".
C19_ListNameAndCompletion ==
    Normalized =>
        \A i \in 1..Len(RawCards) :
            LET expected ==
                    IF ListsOf(RawCards[i]) = {} THEN "Unknown"
                    ELSE RawLists[CHOOSE k \in ListsOf(RawCards[i]) :
                                      \A j \in ListsOf(RawCards[i]) : j <= k].name
            IN  /\ processed_data.cards[i].listName = expected
                /\ processed_data.cards[i].isComplete <=> expected = "Done"

\* A card in the list named "Done " is not complete, a card in Done is.
C19_Witness ==
    /\ Normalized
    /\ Len(RawCards) = 2
    /\ processed_data.cards[1].listName = "Done "
    /\ ~processed_data.cards[1].isComplete
    /\ processed_data.cards[2].listName = "Done"
    /\ processed_data.cards[2].isComplete

\* A card without list id and a card in the list named "done" are not complete.
C19_WitnessUnknown ==
    /\ Normalized
    /\ Len(RawCards) = 2
    /\ "idList" \notin DOMAIN RawCards[1]
    /\ processed_data.cards[1].listName = "Unknown"
    /\ ~processed_data.cards[1].isComplete
    /\ processed_data.cards[2].listName = "done"
    /\ ~processed_data.cards[2].isComplete

\* The member id is the id of a member of the given sequence.
IsMemberOf(member_id, members) ==
    \E k \in 1..Len(members) : "id" \in DOMAIN members[k] /\ members[k].id = member_id

\* The assignments of the analyzed snapshot to ids that are no member of it.
UnknownAssignments ==
    SelectSeq(Assignments(InputCards), LAMBDA a : ~IsMemberOf(a.member_id, InputMembers))

\* The raw snapshot reports no failure, its lists have ids and names and its
\* members have ids.
RawWellFormed ==
    /\ board_data # EmptyDict
    /\ "error" \notin DOMAIN board_data
    /\ \A k \in 1..Len(RawLists) : {"id", "name"} \subseteq DOMAIN RawLists[k]
    /\ \A k \in 1..Len(RawMembers) : "id" \in DOMAIN RawMembers[k]

\* C20: analyze_team_performance accumulates the assignments to ids that are
\* no member of the snapshot in the bucket "Unknown", which counts in
\* member_count and in the average like any other bucket; the normalizer
\* keeps, in order, the assignees of a card that are members of the snapshot,
\* drops the others and reports no error.
C20_UnknownMembers ==
    /\ (AnalysisDone /\ "error" \notin DOMAIN TeamPerformance) =>
          LET by_member == TeamPerformance.cards_by_member IN
          /\ "Unknown" \in DOMAIN by_member <=> UnknownAssignments # <<>>
          /\ UnknownAssignments # <<>> =>
                by_member["Unknown"].total = Len(UnknownAssignments)
          /\ TeamPerformance.member_count = Cardinality(DOMAIN by_member)
          /\ TeamPerformance.avg_cards_per_member[1] * TeamPerformance.member_count
                 = TotalAssignments * TeamPerformance.avg_cards_per_member[2]
    /\ (pc = "processed" /\ RawWellFormed) =>
          /\ "error" \notin DOMAIN processed_data
          /\ \A i \in 1..Len(RawCards) :
                LET kept == SelectSeq(Get(RawCards[i], "idMembers", <<>>),
                                      LAMBDA m : IsMemberOf(m, RawMembers))
                    members == processed_data.cards[i].members
                IN  /\ Len(members) = Len(kept)
                    /\ \A j \in 1..Len(kept) : members[j].id = kept[j]

\* A raw board was analyzed: two assignments to ids that are no members are
\* in the bucket Unknown, next to the buckets of two members.
C20_Witness ==
    /\ pc = "analyzed_board"
    /\ AnalysisDone
    /\ "error" \notin DOMAIN TeamPerformance
    /\ Len(UnknownAssignments) = 2
    /\ TeamPerformance.member_count = 3
    /\ TeamPerformance.cards_by_member["Unknown"].total = 2
    /\ TeamPerformance.avg_cards_per_member = <<4, 3>>

\* A card assigned to a member, to an id that is no member and to a second
\* member was normalized: the two members are kept.
C20_WitnessNormalizer ==
    /\ Normalized
    /\ Len(RawCards) = 2
    /\ Get(RawCards[1], "idMembers", <<>>) = <<"m1", "m9", "m2">>
    /\ processed_data.cards[1].members =
           <<[id |-> "m1", name |-> "Ann"], [id |-> "m2", name |-> "bob"]>>

\* C21: a card is in approaching_deadlines iff its due timestamp parses, lies
\* after now and at most 3 days after now, and dueComplete is false.
C21_ApproachingDeadlines ==
    (AnalysisDone /\ "error" \notin DOMAIN SprintMetrics) =>
        \A i \in 1..Len(InputCards) :
            Listed(SprintMetrics.approaching_deadlines, InputCards[i])
                <=> /\ DueParses(InputCards[i])
                    /\ now < InputCards[i].due.t
                    /\ InputCards[i].due.t <= now + 3
                    /\ ~Get(InputCards[i], "dueComplete", FALSE)

BurnDown == analysis_results.burn_down

\* The number of cards of the analyzed snapshot that are marked complete.
CompleteCards ==
    Cardinality({i \in 1..Len(InputCards) : Get(InputCards[i], "isComplete", FALSE)})

\* The float q is the quotient n / d (d > 0).
IsQuotient(q, n, d) == q[2] > 0 /\ q[1] * d = n * q[2]

\* C22: the burn-down counts one unit per card; remaining = total - completed;
\* the ideal series has 11 entries, for days 0..10, with
\* ideal(day) = total - total * day / 10; the actual series has 6 entries,
\* for days 0..5, with actual(day) = total - completed * day / 5; the
\* projected completion is remaining / (completed / total) when completed > 0
\* and "Cannot estimate" otherwise.
C22_BurnDown ==
    AnalysisDone =>
        LET total == Len(InputCards)
            completed == CompleteCards
            ideal == BurnDown.ideal_burn_down
            actual == BurnDown.actual_burn_down
        IN  /\ BurnDown.total_points = total
            /\ BurnDown.completed_points = completed
            /\ BurnDown.remaining_points = total - completed
            /\ Len(ideal) = 11
            /\ \A day \in 0..10 :
                  /\ ideal[day + 1].day = day
                  /\ IsQuotient(ideal[day + 1].ideal, 10 * total - total * day, 10)
            /\ ideal[1].ideal = <<total, 1>>
            /\ ideal[11].ideal = <<0, 1>>
            /\ Len(actual) = 6
            /\ \A day \in 0..5 :
                  /\ actual[day + 1].day = day
                  /\ IsQuotient(actual[day + 1].actual, 5 * total - completed * day, 5)
            /\ actual[6].actual = <<total - completed, 1>>
            /\ IF completed > 0
               THEN /\ DOMAIN BurnDown.projected_completion = {"float"}
                    /\ IsQuotient(BurnDown.projected_completion.float,
                                  (total - completed) * total, completed)
               ELSE BurnDown.projected_completion = [text |-> "Cannot estimate"]

\* Ten cards, three of them complete: 7 remain and the projection is 7 / 0.3.
C22_Witness ==
    /\ pc = "analyzed"
    /\ AnalysisDone
    /\ BurnDown.total_points = 10
    /\ BurnDown.completed_points = 3
    /\ BurnDown.remaining_points = 7
    /\ BurnDown.ideal_burn_down[4].ideal = <<7, 1>>
    /\ BurnDown.actual_burn_down[2].actual = <<47, 5>>
    /\ BurnDown.projected_completion = [float |-> <<70, 3>>]

\* No card of a board with cards is complete: the projection cannot be made.
C22_WitnessCannotEstimate ==
    /\ AnalysisDone
    /\ BurnDown.total_points > 0
    /\ BurnDown.completed_points = 0
    /\ BurnDown.projected_completion = [text |-> "Cannot estimate"]

\* The sort key of a list: x.get("pos", 0).
PosOf(l) == Get(l, "pos", 0)

\* The place a stable ascending sort gives the k-th list of the input: after
\* the lists of smaller position and the earlier lists of the same position.
StableRank(lists, k) ==
    1 + Cardinality({j \in 1..Len(lists) :
                        \/ PosOf(lists[j]) < PosOf(lists[k])
                        \/ PosOf(lists[j]) = PosOf(lists[k]) /\ j < k})

\* C23: the lists of the normalized snapshot are the input lists, each once,
\* in ascending order of pos (0 when absent); lists of equal pos keep their
\* input order.
C23_ListsSortedByPos ==
    Normalized =>
        /\ Len(processed_data.lists) = Len(RawLists)
        /\ \A k \in 1..Len(RawLists) :
              processed_data.lists[StableRank(RawLists, k)] = RawLists[k]
        /\ \A i, j \in 1..Len(processed_data.lists) :
              i < j => PosOf(processed_data.lists[i]) <= PosOf(processed_data.lists[j])

\* The input lists are out of order and two of them, in input order QA then
\* To Do, share a position: the output has them in that order after the list
\* without position.
C23_Witness ==
    /\ Normalized
    /\ Len(RawLists) = 4
    /\ RawLists[1] = Done
    /\ RawLists[2].name = "QA"
    /\ RawLists[3] = ToDo
    /\ "pos" \notin DOMAIN RawLists[4]
    /\ processed_data.lists = <<RawLists[4], RawLists[2], RawLists[3], RawLists[1]>>

GapsIdentified == pc = "gaps_identified" /\ "error" \notin DOMAIN processed_data

HasGap(gaps, text) == \E k \in 1..Len(gaps) : gaps[k] = text

\* C24: identify_data_gaps returns one entry per card with at least one gap,
\* in the order of the cards, and none for a card without gaps; the gaps of
\* a card contain "Missing due date" iff the card is not complete and has no
\* due date, "Missing description" iff its description is empty, and
\* "No assigned members" iff its resolved member list is empty.
C24_DataGaps ==
    GapsIdentified =>
        LET cards == processed_data.cards
            no_due(i) == ~cards[i].isComplete /\ ~HasDue(RawCards[i])
            no_desc(i) == Get(RawCards[i], "desc", None) \in {None, ""}
            no_members(i) == cards[i].members = <<>>
            gapped == SelectSeq([i \in 1..Len(cards) |-> i],
                                LAMBDA i : no_due(i) \/ no_desc(i) \/ no_members(i))
        IN  /\ Len(data_gaps) = Len(gapped)
            /\ \A k \in 1..Len(gapped) :
                  LET entry == data_gaps[k]
                      i == gapped[k]
                  IN  /\ "error" \notin DOMAIN entry
                      /\ entry.card_id = cards[i].id
                      /\ entry.gaps # <<>>
                      /\ HasGap(entry.gaps, "Missing due date") <=> no_due(i)
                      /\ HasGap(entry.gaps, "Missing description") <=> no_desc(i)
                      /\ HasGap(entry.gaps, "No assigned members") <=> no_members(i)
                      /\ \A g \in 1..Len(entry.gaps) :
                            entry.gaps[g] \in {"Missing due date", "Missing description",
                                               "No assigned members"}

\* A complete card without due date, without description and assigned only
\* to somebody who is no member has the two other gaps but no due-date gap;
\* the second card has no gap and no entry.
C24_Witness ==
    /\ GapsIdentified
    /\ Len(processed_data.cards) = 2
    /\ processed_data.cards[1].isComplete
    /\ ~HasDue(processed_data.cards[1])
    /\ Get(RawCards[1], "idMembers", <<>>) = <<"m9">>
    /\ data_gaps = <<[card_id |-> "c1", card_name |-> "Card 1", list_name |-> "Done",
                      gaps |-> <<"Missing description", "No assigned members">>]>>

\* No card has a gap: the scan returns the empty list.
C24_WitnessNoGaps ==
    /\ GapsIdentified
    /\ Len(processed_data.cards) = 2
    /\ processed_data.cards[1].desc = "Fix it"
    /\ data_gaps = <<>>

\* An incomplete card without due date has the due-date gap.
C24_WitnessMissingDue ==
    /\ GapsIdentified
    /\ Len(data_gaps) = 1
    /\ data_gaps[1].gaps = <<"Missing due date">>

\* The normalized snapshot was analyzed and the metrics were computed.
NormalizedAnalyzed ==
    pc = "analyzed" /\ AnalysisDone /\ "error" \notin DOMAIN SprintMetrics

\* The cards the normalizer marked as blockers, in order.
MarkedBlockers == SelectSeq(processed_data.cards, LAMBDA c : c.isBlocker)

\* C25: on a normalized snapshot, calculate_sprint_metrics lists in blockers
\* exactly the cards whose isBlocker the normalizer set, in the order of the
\* cards; each entry carries the card's id, name, url and resolved list name
\* ("Unknown" when the list id does not resolve).
C25_BlockerDetectionsAgree ==
    NormalizedAnalyzed =>
        /\ Len(SprintMetrics.blockers) = Len(MarkedBlockers)
        /\ \A k \in 1..Len(MarkedBlockers) :
              SprintMetrics.blockers[k] =
                  [id |-> MarkedBlockers[k].id, name |-> MarkedBlockers[k].name,
                   url |-> MarkedBlockers[k].url, list |-> MarkedBlockers[k].listName]
        /\ \A i \in 1..Len(processed_data.cards) :
              processed_data.cards[i].isBlocker
                  <=> Listed(SprintMetrics.blockers, processed_data.cards[i])

\* A card without red label whose comment mentions a blocker, in a list that
\* is not on the board, is a blocker for both; the other card for neither.
C25_Witness ==
    /\ NormalizedAnalyzed
    /\ Len(processed_data.cards) = 2
    /\ processed_data.cards[1].isBlocker
    /\ ~HasRedLabel(processed_data.cards[1])
    /\ ~processed_data.cards[2].isBlocker
    /\ SprintMetrics.blockers =
           <<[id |-> "c1", name |-> "Card 1", url |-> "https://trello.com/c/1",
              list |-> "Unknown"]>>

\* The cards of the analyzed snapshot that carry the id of the entry.
CardsOfEntry(entry) ==
    {i \in 1..Len(InputCards) : Get(InputCards[i], "id", None) = entry.id}

\* C26: in a result of calculate_sprint_metrics no card is both in
\* approaching_deadlines and in overdue_cards, every card in either list has
\* a due date and dueComplete false, and blockers_count,
\* approaching_deadlines_count and overdue_count are the lengths of the lists.
C26_DeadlineLists ==
    (AnalysisDone /\ "error" \notin DOMAIN SprintMetrics) =>
        LET approaching == SprintMetrics.approaching_deadlines
            overdue == SprintMetrics.overdue_cards
        IN  /\ \A a \in 1..Len(approaching), o \in 1..Len(overdue) :
                  approaching[a].id # overdue[o].id
            /\ \A i \in 1..Len(InputCards) :
                  (Listed(approaching, InputCards[i]) \/ Listed(overdue, InputCards[i]))
                      => /\ HasDue(InputCards[i])
                         /\ ~Get(InputCards[i], "dueComplete", FALSE)
            /\ \A a \in 1..Len(approaching) :
                  CardsOfEntry(approaching[a]) # {} /\ approaching[a].due.kind # "None"
            /\ \A o \in 1..Len(overdue) :
                  CardsOfEntry(overdue[o]) # {} /\ overdue[o].due.kind # "None"
            /\ SprintMetrics.blockers_count = Len(SprintMetrics.blockers)
            /\ SprintMetrics.approaching_deadlines_count = Len(approaching)
            /\ SprintMetrics.overdue_count = Len(overdue)

\* One result lists a card as approaching and another card as overdue.
C26_Witness ==
    /\ AnalysisDone
    /\ "error" \notin DOMAIN SprintMetrics
    /\ SprintMetrics.approaching_deadlines_count = 1
    /\ SprintMetrics.overdue_count = 1
    /\ SprintMetrics.approaching_deadlines[1].id # SprintMetrics.overdue_cards[1].id
    /\ SprintMetrics.blockers_count = 0

\* The analysis of a snapshot without cards that reports no failure.
EmptyBoardAnalyzed == AnalysisDone /\ InputCards = <<>>

\* C27: the analysis of a snapshot without cards and without error has a
\* completion_rate risk of severity high and exactly one recommendation of
\* category completion_rate, and no general recommendation; the general
\* recommendation is made only when completion_rate >= 70.
C27_EmptyBoardRisk ==
    /\ EmptyBoardAnalyzed =>
          /\ Cardinality(RisksOf("completion_rate")) = 1
          /\ \A i \in RisksOf("completion_rate") : Risks[i].severity = "high"
          /\ Cardinality(RecommendationsOf("completion_rate")) = 1
          /\ RecommendationsOf("general") = {}
    /\ (AnalysisDone /\ RecommendationsOf("general") # {}) =>
          SprintMetrics.completion_rate[1] >= 70 * SprintMetrics.completion_rate[2]

\* A board with lists and no cards was analyzed: the completion_rate
\* recommendation, of high priority, is the only one.
C27_Witness ==
    /\ EmptyBoardAnalyzed
    /\ InputLists # <<>>
    /\ SprintMetrics.completion_rate = <<0, 1>>
    /\ Len(Recommendations) = 1
    /\ Recommendations[1].category = "completion_rate"
    /\ Recommendations[1].priority = "high"

\* The general recommendation was made for a board that is fully complete.
C27_WitnessGeneral ==
    /\ AnalysisDone
    /\ RecommendationsOf("general") # {}
    /\ SprintMetrics.completion_rate = <<100, 1>>

\* The lists of the analyzed snapshot have pairwise distinct ids.
DistinctListIds ==
    \A j, k \in 1..Len(InputLists) : InputLists[j].id = InputLists[k].id => j = k

\* C28: on a normalized snapshot with pairwise distinct list ids the number
\* of cards with isComplete is the count of the list name Done in
\* cards_by_list (0 when no list has that name), the completion percentage of
\* the velocity is the completion_rate of the metrics, and the completed and
\* remaining points of the burn-down add up to total_cards.
C28_CompletionCountsAgree ==
    (NormalizedAnalyzed /\ DistinctListIds) =>
        LET complete == Cardinality({i \in 1..Len(InputCards) : InputCards[i].isComplete})
            current_sprint == analysis_results.velocity.current_sprint
        IN  /\ complete = Get(SprintMetrics.cards_by_list, "Done", 0)
            /\ BurnDown.completed_points = complete
            /\ current_sprint.completed_points = complete
            /\ current_sprint.completion_percentage = SprintMetrics.completion_rate
            /\ BurnDown.completed_points + BurnDown.remaining_points
                   = SprintMetrics.total_cards

\* One card in the list Done and one in the list done: one card is complete
\* for the three components and the rate is 50.
C28_Witness ==
    /\ NormalizedAnalyzed
    /\ DistinctListIds
    /\ Len(InputCards) = 2
    /\ InputCards[1].listName = "Done"
    /\ InputCards[2].listName = "done"
    /\ SprintMetrics.cards_by_list["Done"] = 1
    /\ BurnDown.completed_points = 1
    /\ analysis_results.velocity.current_sprint.completion_percentage = <<50, 1>>
    /\ SprintMetrics.completion_rate = <<50, 1>>

\* The snapshot handed to the stages is the empty mapping or is absent.
EmptyOrAbsent == board_data = EmptyDict \/ board_data = NoneObj

\* C29: process_trello_data and analyze_sprint_data, handed an empty mapping
\* or no snapshot at all, do not raise and return an error object whose
\* message is the fixed default of the stage.
C29_EmptySnapshotIsError ==
    (EmptyOrAbsent /\ pc # "fetched") =>
        /\ pc # "raised"
        /\ pc = "processed" =>
              processed_data = [error |-> "Unknown error retrieving board data"]
        /\ pc = "analyzed_board" =>
              analysis_results = [error |-> "Unknown error in processed data"]

\* The sum of the counts of a per-list count.
RECURSIVE SumOfCounts(_)
SumOfCounts(counts) ==
    IF DOMAIN counts = {} THEN 0
    ELSE LET first == CHOOSE n \in DOMAIN counts : TRUE
         IN  counts[first] + SumOfCounts([n \in DOMAIN counts \ {first} |-> counts[n]])

\* C30: in a result of calculate_sprint_metrics that is no error the per-list
\* counts sum to the number of cards whose list id resolves, which is at most
\* total_cards, and completion_rate lies in [0, 100]; in a result of
\* identify_process_bottlenecks that is no error the per-list counts sum to
\* the same number, every bottleneck has ratio_to_avg > 1.5, and fewer lists
\* are bottlenecks than the snapshot has list names (none on a board with one
\* list or none).
C30_MetricsInvariants ==
    AnalysisDone =>
        /\ "error" \notin DOMAIN SprintMetrics =>
              /\ SumOfCounts(SprintMetrics.cards_by_list) = Cardinality(ResolvedCards)
              /\ SumOfCounts(SprintMetrics.cards_by_list) <= SprintMetrics.total_cards
              /\ SprintMetrics.total_cards = Len(InputCards)
              /\ SprintMetrics.completion_rate[2] > 0
              /\ SprintMetrics.completion_rate[1] >= 0
              /\ SprintMetrics.completion_rate[1] <= 100 * SprintMetrics.completion_rate[2]
        /\ "error" \notin DOMAIN ProcessBottlenecks =>
              LET found == ProcessBottlenecks.bottlenecks IN
              /\ SumOfCounts(ProcessBottlenecks.cards_by_list) = Cardinality(ResolvedCards)
              /\ SumOfCounts(ProcessBottlenecks.cards_by_list) <= Len(InputCards)
              /\ \A i \in 1..Len(found) :
                    /\ found[i].ratio_to_avg # <<0, 1>>
                    /\ found[i].ratio_to_avg[2] > 0
                    /\ 2 * found[i].ratio_to_avg[1] > 3 * found[i].ratio_to_avg[2]
              /\ \A i, j \in 1..Len(found) : found[i].list_name = found[j].list_name => i = j
              /\ {found[i].list_name : i \in 1..Len(found)} \subseteq InputListNames
              /\ InputListNames # {} => Len(found) < Cardinality(InputListNames)
              /\ Cardinality(InputListNames) <= 1 => found = <<>>

\* A board with cards in several lists has a bottleneck, and some of its
\* cards are complete.
C30_Witness ==
    /\ AnalysisDone
    /\ "error" \notin DOMAIN SprintMetrics
    /\ "error" \notin DOMAIN ProcessBottlenecks
    /\ Cardinality(InputListNames) > 2
    /\ Len(ProcessBottlenecks.bottlenecks) = 1
    /\ SprintMetrics.completion_rate[1] > 0
    /\ SumOfCounts(ProcessBottlenecks.cards_by_list) = SprintMetrics.total_cards

\* A card's list id does not resolve: the counts sum to less than total_cards.
C30_WitnessUnresolved ==
    /\ AnalysisDone
    /\ "error" \notin DOMAIN SprintMetrics
    /\ SumOfCounts(SprintMetrics.cards_by_list) < SprintMetrics.total_cards
    /\ SprintMetrics.completion_rate[1] > 0

\* A board with one list name and cards has no bottleneck.
C30_WitnessSingleList ==
    /\ AnalysisDone
    /\ "error" \notin DOMAIN ProcessBottlenecks
    /\ Cardinality(InputListNames) = 1
    /\ InputCards # <<>>
    /\ ProcessBottlenecks.bottlenecks = <<>>

\* A board fully complete: the rate is at its upper bound.
C30_WitnessFull ==
    /\ AnalysisDone
    /\ "error" \notin DOMAIN SprintMetrics
    /\ SprintMetrics.completion_rate = <<100, 1>>
    /\ InputCards # <<>>

====
